---- MODULE Spec2Model ----
(***************************************************************************)
(* State-machine model of the phased cleaning engine:                      *)
(*   AdvancedDataCleaner (advanced_cleaner.py) driven by its main(), and   *)
(*   the store rotation of DataCleaner (cursor_windsurf_cleaner.py).       *)
(* Files, stores and the backup directory are modelled by value; what the  *)
(* operating system or SQLite refuses during a run is chosen when the run  *)
(* starts (env) and met by the step that performs the operation.           *)
(***************************************************************************)
EXTENDS Integers, Sequences, FiniteSets, TLC

\* ------------------------------------------------------------------------
\* Bounds of the model
\* ------------------------------------------------------------------------
\* how many seconds the wall clock may advance during one run
MaxTicks == 1
\* how many things of the environment may be broken during one run
MaxFaults == 1
\* the day (since the epoch) on which the run starts
StartDay == 100
\* age in days of the files and backup entries that are "old" when the run starts
OldAgeDays == 31

\* ------------------------------------------------------------------------
\* Program constants
\* ------------------------------------------------------------------------
\* timedelta(days=1) in seconds, the unit of st_mtime and timestamp()
Day == 86400
\* backup_options.retention_days of the default configuration
DefaultRetentionDays == 30
\* datetime.min (0001-01-01), in days relative to the epoch: datetime arithmetic that
\* leaves the range raises OverflowError
MinDay == -719162

\* ------------------------------------------------------------------------
\* Text: a Python str is a sequence of one-character strings
\* ------------------------------------------------------------------------
Chars(s) ==
  CASE s = "machineId" -> <<"m", "a", "c", "h", "i", "n", "e", "I", "d">>
    [] s = "deviceId" -> <<"d", "e", "v", "i", "c", "e", "I", "d">>
    [] s = "sessionId" -> <<"s", "e", "s", "s", "i", "o", "n", "I", "d">>
    [] s = "authToken" -> <<"a", "u", "t", "h", "T", "o", "k", "e", "n">>
    [] s = "accessToken" -> <<"a", "c", "c", "e", "s", "s", "T", "o", "k", "e", "n">>
    [] s = "userSession" -> <<"u", "s", "e", "r", "S", "e", "s", "s", "i", "o", "n">>
    [] s = "telemetry.machineId" -> <<"t", "e", "l", "e", "m", "e", "t", "r", "y", ".", "m", "a", "c", "h", "i", "n", "e", "I", "d">>
    [] s = "telemetryMachineId" -> <<"t", "e", "l", "e", "m", "e", "t", "r", "y", "M", "a", "c", "h", "i", "n", "e", "I", "d">>
    [] s = "telemetry.deviceId" -> <<"t", "e", "l", "e", "m", "e", "t", "r", "y", ".", "d", "e", "v", "i", "c", "e", "I", "d">>
    [] s = "lastSessionId" -> <<"l", "a", "s", "t", "S", "e", "s", "s", "i", "o", "n", "I", "d">>
    [] s = "installationId" -> <<"i", "n", "s", "t", "a", "l", "l", "a", "t", "i", "o", "n", "I", "d">>
    [] s = "sqmUserId" -> <<"s", "q", "m", "U", "s", "e", "r", "I", "d">>
    [] s = "sqmMachineId" -> <<"s", "q", "m", "M", "a", "c", "h", "i", "n", "e", "I", "d">>
    [] s = "lastSessionDate" -> <<"l", "a", "s", "t", "S", "e", "s", "s", "i", "o", "n", "D", "a", "t", "e">>
    [] s = "sessionStartTime" -> <<"s", "e", "s", "s", "i", "o", "n", "S", "t", "a", "r", "t", "T", "i", "m", "e">>
    [] s = "refreshToken" -> <<"r", "e", "f", "r", "e", "s", "h", "T", "o", "k", "e", "n">>
    [] s = "session" -> <<"s", "e", "s", "s", "i", "o", "n">>
    [] s = "augment" -> <<"a", "u", "g", "m", "e", "n", "t">>
    [] s = "account" -> <<"a", "c", "c", "o", "u", "n", "t">>
    [] s = "user" -> <<"u", "s", "e", "r">>
    [] s = "cache" -> <<"c", "a", "c", "h", "e">>
    [] s = "temp" -> <<"t", "e", "m", "p">>
    [] s = "log" -> <<"l", "o", "g">>
    [] s = "backup" -> <<"b", "a", "c", "k", "u", "p">>
    [] s = ".bak" -> <<".", "b", "a", "k">>
    [] s = "cursor" -> <<"c", "u", "r", "s", "o", "r">>
    [] s = "windsurf" -> <<"w", "i", "n", "d", "s", "u", "r", "f">>
    [] s = "User" -> <<"U", "s", "e", "r">>
    [] s = "Backup" -> <<"B", "a", "c", "k", "u", "p">>
    [] s = "state.vscdb" -> <<"s", "t", "a", "t", "e", ".", "v", "s", "c", "d", "b">>
    [] s = "storage.json" -> <<"s", "t", "o", "r", "a", "g", "e", ".", "j", "s", "o", "n">>
    [] s = "old.db" -> <<"o", "l", "d", ".", "d", "b">>
    [] s = "Cache" -> <<"C", "a", "c", "h", "e">>
    [] s = "a" -> <<"a">>
    [] s = "ItemTable" -> <<"I", "t", "e", "m", "T", "a", "b", "l", "e">>
    [] s = "key" -> <<"k", "e", "y">>
    [] s = "value" -> <<"v", "a", "l", "u", "e">>
    [] s = "accounts" -> <<"a", "c", "c", "o", "u", "n", "t", "s">>
    [] s = "name" -> <<"n", "a", "m", "e">>
    [] s = "http_cache" -> <<"h", "t", "t", "p", "_", "c", "a", "c", "h", "e">>
    [] s = "url" -> <<"u", "r", "l">>
    [] s = "X" -> <<"X">>
    [] s = "Y" -> <<"Y">>
    [] s = "Z" -> <<"Z">>
    [] s = "account-42" -> <<"a", "c", "c", "o", "u", "n", "t", "-", "4", "2">>
    [] s = "unrelated" -> <<"u", "n", "r", "e", "l", "a", "t", "e", "d">>
    [] s = "otherData" -> <<"o", "t", "h", "e", "r", "D", "a", "t", "a">>
    [] s = "should-remain" -> <<"s", "h", "o", "u", "l", "d", "-", "r", "e", "m", "a", "i", "n">>
    [] s = "page" -> <<"p", "a", "g", "e">>
    [] s = ".vscdb" -> <<".", "v", "s", "c", "d", "b">>
    [] s = ".db" -> <<".", "d", "b">>
    [] s = ".sqlite" -> <<".", "s", "q", "l", "i", "t", "e">>
    [] s = ".sqlite3" -> <<".", "s", "q", "l", "i", "t", "e", "3">>
    [] s = ".json" -> <<".", "j", "s", "o", "n">>
    [] s = "HTTP_Cache" -> <<"H", "T", "T", "P", "_", "C", "a", "c", "h", "e">>
    [] s = "notes" -> <<"n", "o", "t", "e", "s">>
    [] s = "order" -> <<"o", "r", "d", "e", "r">>
    [] s = "temp-log" -> <<"t", "e", "m", "p", "-", "l", "o", "g">>
    [] s = "ACCOUNT-42" -> <<"A", "C", "C", "O", "U", "N", "T", "-", "4", "2">>
    [] s = "n1" -> <<"n", "1">>
    [] s = "account-7" -> <<"a", "c", "c", "o", "u", "n", "t", "-", "7">>
    [] s = "o2" -> <<"o", "2">>
    [] s = "o3" -> <<"o", "3">>
    [] s = "Account" -> <<"A", "c", "c", "o", "u", "n", "t">>
    [] s = "b" -> <<"b">>
    [] s = "keep" -> <<"k", "e", "e", "p">>
    [] s = "m" -> <<"m">>
    [] s = "c" -> <<"c">>
    [] s = "h" -> <<"h">>
    [] s = "i" -> <<"i">>
    [] s = "n" -> <<"n">>
    [] s = "e" -> <<"e">>
    [] s = "I" -> <<"I">>
    [] s = "d" -> <<"d">>
    [] s = "k" -> <<"k">>
    [] s = "p" -> <<"p">>
    [] s = "text" -> <<"t", "e", "x", "t">>
    [] s = "null" -> <<"n", "u", "l", "l">>
    [] s = "varchar" -> <<"v", "a", "r", "c", "h", "a", "r">>
    [] s = "owner" -> <<"o", "w", "n", "e", "r">>
    [] s = "login" -> <<"l", "o", "g", "i", "n">>
    [] s = "auth" -> <<"a", "u", "t", "h">>
    [] s = "token" -> <<"t", "o", "k", "e", "n">>
    [] s = "history" -> <<"h", "i", "s", "t", "o", "r", "y">>
    [] s = "recent" -> <<"r", "e", "c", "e", "n", "t">>
    [] s = "" -> <<>>
    [] s = "telemetry_db" -> <<"t", "e", "l", "e", "m", "e", "t", "r", "y", "_", "d", "b">>
    [] s = "database" -> <<"d", "a", "t", "a", "b", "a", "s", "e">>
    [] s = "User_workspaceStorage" -> <<"U", "s", "e", "r", "_", "w", "o", "r", "k", "s", "p", "a", "c", "e", "S", "t", "o", "r", "a", "g", "e">>

LowerChar(c) ==
  CASE c = "A" -> "a" [] c = "B" -> "b" [] c = "C" -> "c" [] c = "D" -> "d"
    [] c = "E" -> "e" [] c = "F" -> "f" [] c = "G" -> "g" [] c = "H" -> "h"
    [] c = "I" -> "i" [] c = "J" -> "j" [] c = "K" -> "k" [] c = "L" -> "l"
    [] c = "M" -> "m" [] c = "N" -> "n" [] c = "O" -> "o" [] c = "P" -> "p"
    [] c = "Q" -> "q" [] c = "R" -> "r" [] c = "S" -> "s" [] c = "T" -> "t"
    [] c = "U" -> "u" [] c = "V" -> "v" [] c = "W" -> "w" [] c = "X" -> "x"
    [] c = "Y" -> "y" [] c = "Z" -> "z"
    [] OTHER -> c

\* the value of the one-element set S; operators bind an argument through a one-element
\* set where they use it many times, so that it is computed once
Then(S) == CHOOSE x \in S : TRUE

\* str.lower()
Lower(cs) == Then({[i \in 1..Len(s) |-> LowerChar(s[i])] : s \in {cs}})

\* needle in hay
Contains(hay, needle) ==
  \E h \in {hay} : \E n \in {needle} :
    \E i \in 0..(Len(h) - Len(n)) : SubSeq(h, i + 1, i + Len(n)) = n

\* str.endswith(tail)
EndsWith(cs, tail) ==
  \E s \in {cs} : \E t \in {tail} :
    /\ Len(t) <= Len(s)
    /\ SubSeq(s, Len(s) - Len(t) + 1, Len(s)) = t

HexDigit == <<"0", "1", "2", "3", "4", "5", "6", "7", "8", "9", "a", "b", "c", "d", "e", "f">>

RECURSIVE Hex(_)
Hex(n) == IF n < 16 THEN <<HexDigit[n + 1]>> ELSE Hex(n \div 16) \o <<HexDigit[(n % 16) + 1]>>

\* a stored value: text that was in the store, or the gen-th identifier made by uuid.uuid4()
V(t) == [txt |-> t, gen |-> 0]
NewId(n) == [txt |-> "", gen |-> n]
CellChars(c) == IF c.gen > 0 THEN Hex(c.gen) ELSE Chars(c.txt)

\* ------------------------------------------------------------------------
\* Paths and the file system
\* ------------------------------------------------------------------------
\* None, for an Optional[Path]
NoPath == <<>>

\* keys of config["applications"]; "Windsurf" is a key that is not lower case
AppNames == {"cursor", "windsurf", "Windsurf"}

\* app_name.lower()
LowerName(app) == IF app = "Windsurf" THEN "windsurf" ELSE app

\* the data root an application's path templates resolve to
RootOf(app) == <<LowerName(app)>>

AllPaths ==
  { <<"cursor">>, <<"cursor", "state.vscdb">>, <<"cursor", "storage.json">>,
    <<"cursor", "User">>, <<"cursor", "User", "state.vscdb">>, <<"cursor", "User", "Cache">>,
    <<"cursor", "Cache">>, <<"cursor", "Cache", "a">>,
    <<"cursor", "Cache", "Cache">>, <<"cursor", "Cache", "Cache", "b">>,
    <<"cursor", "Backup">>, <<"cursor", "Backup", "old.db">>,
    <<"windsurf">>, <<"windsurf", "state.vscdb">>,
    <<"windsurf", "Cache">>, <<"windsurf", "Cache", "a">> }

\* top-down traversal order of os.walk and Path.rglob
WalkOrder ==
  << <<"cursor">>, <<"cursor", "state.vscdb">>, <<"cursor", "storage.json">>,
     <<"cursor", "User">>, <<"cursor", "User", "state.vscdb">>, <<"cursor", "User", "Cache">>,
     <<"cursor", "Cache">>, <<"cursor", "Cache", "a">>,
     <<"cursor", "Cache", "Cache">>, <<"cursor", "Cache", "Cache", "b">>,
     <<"cursor", "Backup">>, <<"cursor", "Backup", "old.db">>,
     <<"windsurf">>, <<"windsurf", "state.vscdb">>,
     <<"windsurf", "Cache">>, <<"windsurf", "Cache", "a">> >>

NoNode == [kind |-> "none", mtime |-> 0, data |-> <<>>]
DirNode(m) == [kind |-> "dir", mtime |-> m, data |-> <<>>]
FileNode(m, d) == [kind |-> "file", mtime |-> m, data |-> d]

\* a table of a SQLite store: column names and rows (one cell per column)
Table(cols, rows) == [cols |-> cols, rows |-> rows]

\* CREATE TABLE ItemTable (key TEXT PRIMARY KEY, value TEXT)
ItemTableOf(pairs) == Table(<<"key", "value">>, {<<V(kv[1]), V(kv[2])>> : kv \in pairs})

Exists(f, p) == p \in AllPaths /\ f[p].kind # "none"

IsUnder(d, p) == Len(d) <= Len(p) /\ SubSeq(p, 1, Len(d)) = d

\* Path.name
Name(p) == p[Len(p)]

SetMax(S) == CHOOSE m \in S : \A x \in S : x <= m

\* Path.suffix
SuffixChars(nm) ==
  LET cs == Chars(nm)
      dots == {i \in 2..Len(cs) : cs[i] = "."}
  IN IF dots = {} \/ cs[Len(cs)] = "." THEN <<>> ELSE SubSeq(cs, SetMax(dots), Len(cs))

\* str(path)
PathChars(p) ==
  LET RECURSIVE Join(_)
      Join(i) == IF i = 1 THEN Chars(p[1]) ELSE Join(i - 1) \o <<"/">> \o Chars(p[i])
  IN Join(Len(p))

Range(s) == {s[i] : i \in 1..Len(s)}

\* AdvancedDataCleaner._find_files_recursive
FindFilesRecursive(f, root, filenames) ==
  SelectSeq(WalkOrder, LAMBDA p :
    /\ Exists(f, p) /\ IsUnder(root, p) /\ p # root
    /\ f[p].kind = "file"
    /\ Name(p) \in Range(filenames))

\* root.rglob("*" + ext)
RGlobSuffix(f, root, ext) ==
  SelectSeq(WalkOrder, LAMBDA p :
    /\ Exists(f, p) /\ IsUnder(root, p) /\ p # root
    /\ EndsWith(Chars(Name(p)), Chars(ext)))

\* root.rglob(name)
RGlobName(f, root, nm) ==
  SelectSeq(WalkOrder, LAMBDA p :
    /\ Exists(f, p) /\ IsUnder(root, p) /\ p # root
    /\ Name(p) = nm)

\* the db_files list of _clean_databases_advanced
DbFiles(f, root) ==
  RGlobSuffix(f, root, ".db") \o RGlobSuffix(f, root, ".sqlite")
    \o RGlobSuffix(f, root, ".sqlite3") \o RGlobSuffix(f, root, ".vscdb")

\* a test for the word backup that ignores no capital letter
IsBackupFileExactCase(p) ==
  \/ Contains(PathChars(p), Chars("backup"))
  \/ Contains(PathChars(p), Chars(".bak"))

\* the test that makes _clean_databases_advanced skip a file
IsBackupFile(p) ==
  \/ Contains(Lower(PathChars(p)), Chars("backup"))
  \/ Contains(PathChars(p), Chars(".bak"))

\* ------------------------------------------------------------------------
\* The backup directory
\* ------------------------------------------------------------------------
\* None, for an Optional[Path] returned by _create_backup
NoBackup == [app |-> "", kind |-> "none", base |-> "", ts |-> 0, zip |-> FALSE]

\* backup_base_dir / f"{backup_name}_{timestamp}" (+ ".zip"); label = <<app, kind, base>>
BackupName(label, ts, zip) ==
  [app |-> label[1], kind |-> label[2], base |-> label[3], ts |-> ts, zip |-> zip]

\* what shutil.copy2 / shutil.copytree copy
Snapshot(f, src) == [p \in {q \in AllPaths : Exists(f, q) /\ IsUnder(src, q)} |-> f[p]]

\* what the zip archive holds: the regular files only
ZipSnapshot(f, src) ==
  [p \in {q \in AllPaths : Exists(f, q) /\ IsUnder(src, q) /\ f[q].kind = "file"} |-> f[p]]

PutEntry(bdir, name, e) == [n \in DOMAIN bdir \cup {name} |-> IF n = name THEN e ELSE bdir[n]]

\* AdvancedDataCleaner._create_backup; outcome is what the operating system does:
\* "ok", "copy_error" (the copy raises), "stat_error" (source_path.exists() raises);
\* raised = the call raises, failed = its except branch ran, ret = the returned path
CreateBackup(f, bdir, opts, t, src, label, outcome) ==
  LET none == [raised |-> FALSE, failed |-> FALSE, ret |-> NoBackup, dir |-> bdir]
      name == BackupName(label, t, opts.compression)
      made(e) == [raised |-> FALSE, failed |-> FALSE, ret |-> name, dir |-> PutEntry(bdir, name, e)]
  IN IF outcome = "stat_error" THEN [none EXCEPT !.raised = TRUE]
     ELSE IF ~Exists(f, src) THEN none
     ELSE IF ~opts.enabled THEN none
     ELSE IF outcome = "copy_error" THEN [none EXCEPT !.failed = TRUE]
     ELSE IF opts.compression
       THEN made([kind |-> "zip", mtime |-> t, src |-> src, snap |-> ZipSnapshot(f, src)])
     ELSE IF f[src].kind = "file" /\ name \in DOMAIN bdir /\ bdir[name].kind = "dir"
       THEN IF \E q \in DOMAIN bdir[name].snap :
                 /\ Len(q) = Len(bdir[name].src) + 1
                 /\ Name(q) = Name(src)
                 /\ bdir[name].snap[q].kind = "dir"
              THEN [none EXCEPT !.failed = TRUE]
            ELSE made([bdir[name] EXCEPT !.snap = (src :> f[src]) @@ @])
     ELSE IF f[src].kind = "file"
       THEN made([kind |-> "file", mtime |-> f[src].mtime, src |-> src, snap |-> Snapshot(f, src)])
     ELSE IF name \in DOMAIN bdir THEN [none EXCEPT !.failed = TRUE]
     ELSE made([kind |-> "dir", mtime |-> f[src].mtime, src |-> src, snap |-> Snapshot(f, src)])

\* _clean_old_backups: "datetime.now() - timedelta(days=retention_days)" raises
CutoffOverflows(retention_days, t) ==
  retention_days > 0 /\ (t \div Day) - retention_days < MinDay

\* a comparison that also takes the entries at the cutoff
ExpiredOrAtCutoff(bdir, retention_days, t) ==
  {n \in DOMAIN bdir : bdir[n].mtime <= t - retention_days * Day}

\* the entries _clean_old_backups finds older than the cutoff
Expired(bdir, retention_days, t) ==
  {n \in DOMAIN bdir : bdir[n].mtime < t - retention_days * Day}

\* AdvancedDataCleaner._clean_old_backups; kept = the expired entries the loop did not
\* reach because an exception ended it (empty when nothing raised)
CleanOldBackups(bdir, retention_days, t, kept) ==
  IF retention_days <= 0 THEN bdir
  ELSE [n \in DOMAIN bdir \ (Expired(bdir, retention_days, t) \ kept) |-> bdir[n]]

\* the expired entries the loop of _clean_old_backups leaves when it visits the entries
\* in the given order and an exception ends it: stat() raises on the entries of
\* unreadable, the removal raises on the entries of stuck
KeptByFailure(bdir, order, unreadable, stuck, retention_days, t) ==
  LET expired == Expired(bdir, retention_days, t)
      stops == {i \in 1..Len(order) :
                  order[i] \in unreadable \/ (order[i] \in stuck /\ order[i] \in expired)}
  IN IF stops = {} THEN {}
     ELSE {order[i] : i \in {j \in 1..Len(order) :
                                 order[j] \in expired /\ \E k \in stops : j >= k}}

\* AdvancedDataCleaner._create_restore_script
CreateRestoreScript(bdir, safety, app, backups, t, write_error) ==
  IF ~safety.create_restore_script \/ write_error THEN bdir
  ELSE PutEntry(bdir, [app |-> app, kind |-> "restore", base |-> ".py", ts |-> t, zip |-> FALSE],
                [kind |-> "script", mtime |-> t, src |-> NoPath, snap |-> backups])

\* ------------------------------------------------------------------------
\* Identifier rotation of one store
\* ------------------------------------------------------------------------
\* the failures of one rotation: sqlite3.connect raises, the UPDATE / DELETE of the keys
\* in upd / del raises sqlite3.Error, conn.commit() raises, VACUUM raises
NoErr == [open |-> FALSE, upd |-> {}, del |-> {}, commit |-> FALSE, vacuum |-> FALSE]

\* a statement on ItemTable raises sqlite3.Error when the table or a named column is missing
StmtFails(db, cols) ==
  \/ "ItemTable" \notin DOMAIN db
  \/ \E c \in cols : c \notin Range(db["ItemTable"].cols)

ColIndex(cols, c) == CHOOSE i \in 1..Len(cols) : cols[i] = c

\* UPDATE ItemTable SET value = ? WHERE key = ?
UpdateItem(db, key, val) ==
  LET cols == db["ItemTable"].cols
      k == ColIndex(cols, "key")
      v == ColIndex(cols, "value")
  IN [db EXCEPT !["ItemTable"].rows = {IF r[k] = V(key) THEN [r EXCEPT ![v] = val] ELSE r : r \in @}]

\* DELETE FROM ItemTable WHERE key = ?
DeleteItem(db, key) ==
  LET k == ColIndex(db["ItemTable"].cols, "key")
  IN [db EXCEPT !["ItemTable"].rows = {r \in @ : r[k] # V(key)}]

\* a split of the identifiers that looks for "session" as it is spelled
AdvancedIdForExactCase(key, mid, sid) ==
  IF Contains(Chars(key), Chars("session")) THEN sid ELSE mid

\* the identifier the advanced rotation gives to a telemetry key
AdvancedIdFor(key, mid, sid) ==
  IF Contains(Lower(Chars(key)), Chars("session")) THEN sid ELSE mid

\* the "Update telemetry keys" loop of _modify_sqlite_telemetry_advanced, from key i on
RECURSIVE UpdateKeysAdvanced(_, _, _, _, _, _)
UpdateKeysAdvanced(db, keys, i, mid, sid, errs) ==
  IF i > Len(keys) THEN db
  ELSE LET key == keys[i]
           next == IF key \in errs \/ StmtFails(db, {"key", "value"}) THEN db
                   ELSE UpdateItem(db, key, AdvancedIdFor(key, mid, sid))
       IN Then({UpdateKeysAdvanced(d, keys, i + 1, mid, sid, errs) : d \in {next}})

\* the "Clear session keys" loop, from key i on
RECURSIVE DeleteKeys(_, _, _, _)
DeleteKeys(db, keys, i, errs) ==
  IF i > Len(keys) THEN db
  ELSE LET key == keys[i]
           next == IF key \in errs \/ StmtFails(db, {"key"}) THEN db ELSE DeleteItem(db, key)
       IN Then({DeleteKeys(d, keys, i + 1, errs) : d \in {next}})

\* an end of a rotation that reports success although VACUUM raised
FinishRotationIgnoringVacuum(db, new, err, ids) ==
  IF err.commit THEN [ok |-> FALSE, data |-> db, ids |-> ids, committed |-> FALSE, vacuumed |-> FALSE,
                      closed |-> FALSE]
  ELSE [ok |-> TRUE, data |-> new, ids |-> ids, committed |-> TRUE, vacuumed |-> ~err.vacuum,
        closed |-> TRUE]

\* the end of a rotation: commit, VACUUM, close, return True; or the except branch,
\* which returns False without conn.close(); closed = no connection of the call is
\* left open when it returns
FinishRotation(db, new, err, ids) ==
  IF err.commit THEN [ok |-> FALSE, data |-> db, ids |-> ids, committed |-> FALSE, vacuumed |-> FALSE,
                      closed |-> FALSE]
  ELSE IF err.vacuum THEN [ok |-> FALSE, data |-> new, ids |-> ids, committed |-> TRUE,
                           vacuumed |-> FALSE, closed |-> FALSE]
  ELSE [ok |-> TRUE, data |-> new, ids |-> ids, committed |-> TRUE, vacuumed |-> TRUE,
        closed |-> TRUE]

\* AdvancedDataCleaner._modify_sqlite_telemetry_advanced; n = identifiers made so far
ModifySqliteTelemetryAdvanced(db, telemetry_keys, session_keys, n, err) ==
  IF err.open THEN [ok |-> FALSE, data |-> db, ids |-> 0, committed |-> FALSE, vacuumed |-> FALSE,
                    closed |-> TRUE]
  ELSE LET new_machine_id == NewId(n + 1)
           new_session_id == NewId(n + 2)
           updated == UpdateKeysAdvanced(db, telemetry_keys, 1, new_machine_id, new_session_id, err.upd)
           cleared == DeleteKeys(updated, session_keys, 1, err.del)
       IN FinishRotation(db, cleared, err, 2)

\* the hard-coded key lists of DataCleaner._modify_sqlite_telemetry
BasicTelemetryKeys ==
  <<"machineId", "telemetry.machineId", "telemetryMachineId", "deviceId", "telemetry.deviceId",
    "lastSessionId", "sessionId", "installationId", "sqmUserId", "sqmMachineId">>

BasicSessionKeys ==
  <<"lastSessionDate", "sessionStartTime", "userSession", "authToken", "accessToken", "refreshToken">>

\* the identifier the basic rotation gives to a telemetry key
BasicIdFor(key, mid, tid, sid) ==
  IF \/ Contains(Lower(Chars(key)), Chars("machineId"))
     \/ Contains(Lower(Chars(key)), Chars("deviceId")) THEN mid
  ELSE IF Contains(Lower(Chars(key)), Chars("sessionId")) THEN sid
  ELSE tid

RECURSIVE UpdateKeysBasic(_, _, _, _, _, _, _)
UpdateKeysBasic(db, keys, i, mid, tid, sid, errs) ==
  IF i > Len(keys) THEN db
  ELSE LET key == keys[i]
           next == IF key \in errs \/ StmtFails(db, {"key", "value"}) THEN db
                   ELSE UpdateItem(db, key, BasicIdFor(key, mid, tid, sid))
       IN Then({UpdateKeysBasic(d, keys, i + 1, mid, tid, sid, errs) : d \in {next}})

\* DataCleaner._modify_sqlite_telemetry
ModifySqliteTelemetry(db, n, err) ==
  IF err.open THEN [ok |-> FALSE, data |-> db, ids |-> 0, committed |-> FALSE, vacuumed |-> FALSE,
                    closed |-> TRUE]
  ELSE LET new_machine_id == NewId(n + 1)
           new_telemetry_id == NewId(n + 2)
           new_session_id == NewId(n + 3)
           updated == UpdateKeysBasic(db, BasicTelemetryKeys, 1, new_machine_id,
                                      new_telemetry_id, new_session_id, err.upd)
           cleared == DeleteKeys(updated, BasicSessionKeys, 1, err.del)
       IN FinishRotation(db, cleared, err, 3)

\* the "Update telemetry keys" loop of _modify_json_telemetry_advanced, from key i on
RECURSIVE JsonUpdateKeys(_, _, _, _, _)
JsonUpdateKeys(obj, keys, i, mid, sid) ==
  IF i > Len(keys) THEN obj
  ELSE LET key == keys[i]
           next == IF key \in DOMAIN obj THEN [obj EXCEPT ![key] = AdvancedIdFor(key, mid, sid)]
                   ELSE obj
       IN Then({JsonUpdateKeys(d, keys, i + 1, mid, sid) : d \in {next}})

\* a removal that takes the unlisted key otherData along
JsonDeleteKeysAndOtherData(obj, keys) ==
  [k \in (DOMAIN obj \ Range(keys)) \ {"otherData"} |-> obj[k]]

\* the "Remove session keys" loop: del data[key] for the keys present
JsonDeleteKeys(obj, keys) == [k \in DOMAIN obj \ Range(keys) |-> obj[k]]

\* AdvancedDataCleaner._modify_json_telemetry_advanced; err.open = open or json.load
\* raises, err.commit = the file cannot be opened for writing
ModifyJsonTelemetryAdvanced(obj, telemetry_keys, session_keys, n, err) ==
  IF err.open THEN [ok |-> FALSE, data |-> obj, ids |-> 0, written |-> FALSE]
  ELSE LET new == JsonDeleteKeys(JsonUpdateKeys(obj, telemetry_keys, 1, NewId(n + 1), NewId(n + 2)),
                                 session_keys)
           modified == \E k \in DOMAIN obj : k \in Range(telemetry_keys) \cup Range(session_keys)
       IN IF ~modified THEN [ok |-> TRUE, data |-> obj, ids |-> 2, written |-> FALSE]
          ELSE IF err.commit THEN [ok |-> FALSE, data |-> obj, ids |-> 2, written |-> FALSE]
          ELSE [ok |-> TRUE, data |-> new, ids |-> 2, written |-> TRUE]

\* the hard-coded key lists of DataCleaner._modify_json_telemetry
BasicJsonTelemetryKeys ==
  <<"machineId", "telemetry.machineId", "deviceId", "sessionId", "installationId", "sqmUserId",
    "sqmMachineId">>

BasicJsonSessionKeys == <<"lastSessionDate", "sessionStartTime", "authToken", "accessToken">>

\* the update loop of DataCleaner._modify_json_telemetry, from key i on
RECURSIVE JsonUpdateKeysBasic(_, _, _, _, _)
JsonUpdateKeysBasic(obj, keys, i, mid, tid) ==
  IF i > Len(keys) THEN obj
  ELSE LET key == keys[i]
           next == IF key \in DOMAIN obj
                   THEN [obj EXCEPT ![key] =
                           IF \/ Contains(Lower(Chars(key)), Chars("machineId"))
                              \/ Contains(Lower(Chars(key)), Chars("deviceId")) THEN mid ELSE tid]
                   ELSE obj
       IN Then({JsonUpdateKeysBasic(d, keys, i + 1, mid, tid) : d \in {next}})

\* DataCleaner._modify_json_telemetry; err.open = open or json.load raises,
\* err.commit = the file cannot be opened for writing
ModifyJsonTelemetry(obj, n, err) ==
  IF err.open THEN [ok |-> FALSE, data |-> obj, ids |-> 0, written |-> FALSE]
  ELSE LET new == JsonDeleteKeys(JsonUpdateKeysBasic(obj, BasicJsonTelemetryKeys, 1,
                                                     NewId(n + 1), NewId(n + 2)),
                                 BasicJsonSessionKeys)
           modified == \E k \in DOMAIN obj :
                         k \in Range(BasicJsonTelemetryKeys) \cup Range(BasicJsonSessionKeys)
       IN IF ~modified THEN [ok |-> TRUE, data |-> obj, ids |-> 2, written |-> FALSE]
          ELSE IF err.commit THEN [ok |-> FALSE, data |-> obj, ids |-> 2, written |-> FALSE]
          ELSE [ok |-> TRUE, data |-> new, ids |-> 2, written |-> TRUE]

\* ------------------------------------------------------------------------
\* Keyword purge of one store
\* ------------------------------------------------------------------------
\* the cache-pattern test of _clean_sqlite_advanced: pattern in table.lower()
IsCacheTable(table, cache_patterns) ==
  \E i \in 1..Len(cache_patterns) : Contains(Lower(Chars(table)), Chars(cache_patterns[i]))

\* a match that is satisfied by the first letter of the keyword alone
LikeFirstLetter(cell, keyword) ==
  Contains(Lower(CellChars(cell)), Lower(SubSeq(Chars(keyword), 1, 1)))

\* col LIKE '%keyword%': SQLite's LIKE ignores the case of ASCII letters
Like(cell, keyword) == Contains(Lower(CellChars(cell)), Lower(Chars(keyword)))

\* words that SQL reads as a keyword where the statement text has a name
SqlKeywords == {"order"}

\* the name can stand in the text of a statement as it is: f"DELETE FROM {table}",
\* f"PRAGMA table_info({table})" and f"... WHERE {col} LIKE ?" raise sqlite3.Error otherwise
PlainIdentifier(name) ==
  /\ name \notin SqlKeywords
  /\ \A c \in Range(Chars(name)) : c \notin {" ", "-"}

\* the rows of a table left by the DELETE statements of _clean_sqlite_advanced; a
\* statement that raises deletes nothing
PurgedRows(table, tbl, keywords, cache_patterns) ==
  IF ~PlainIdentifier(table) THEN tbl.rows
  ELSE IF IsCacheTable(table, cache_patterns) THEN {}
  ELSE {r \in tbl.rows :
          ~\E k \in 1..Len(keywords) : \E c \in 1..Len(tbl.cols) :
             PlainIdentifier(tbl.cols[c]) /\ Like(r[c], keywords[k])}

\* the order in which sqlite_master lists the tables
TableOrder ==
  <<"temp-log", "ItemTable", "accounts", "HTTP_Cache", "notes", "http_cache">>

\* the tables list of _clean_sqlite_advanced
TablesOf(db) == SelectSeq(TableOrder, LAMBDA t : t \in DOMAIN db)

\* a loop over the tables that ends at the first table whose statement raises
RECURSIVE PurgeTablesUntilFailure(_, _, _, _, _)
PurgeTablesUntilFailure(db, tables, i, keywords, cache_patterns) ==
  IF i > Len(tables) \/ ~PlainIdentifier(tables[i]) THEN db
  ELSE LET t == tables[i]
           next == [db EXCEPT ![t].rows = PurgedRows(t, db[t], keywords, cache_patterns)]
       IN Then({PurgeTablesUntilFailure(d, tables, i + 1, keywords, cache_patterns) : d \in {next}})

\* the "for table in tables" loop of _clean_sqlite_advanced, from table i on
RECURSIVE PurgeTables(_, _, _, _, _)
PurgeTables(db, tables, i, keywords, cache_patterns) ==
  IF i > Len(tables) THEN db
  ELSE LET t == tables[i]
           next == [db EXCEPT ![t].rows = PurgedRows(t, db[t], keywords, cache_patterns)]
       IN Then({PurgeTables(d, tables, i + 1, keywords, cache_patterns) : d \in {next}})

\* the default keywords of DataCleaner._clean_databases
BasicKeywords == <<"augment", "account", "session", "user", "login", "auth", "token">>

\* cache_table_patterns of DataCleaner._clean_sqlite_database
BasicCachePatterns == <<"cache", "session", "temp", "log", "history", "recent">>

\* a cell that holds NULL
Null == [txt |-> "", gen |-> -1]

\* no row: what fetchone() returns on an empty table
NoRow == <<>>

\* typeof(col) of a cell
TypeOf(c) == IF c = Null THEN "null" ELSE "text"

\* the text_columns of _clean_sqlite_database: the columns for which
\* SELECT typeof(col) FROM table LIMIT 1 answers text or varchar; first = the row that
\* the statement reads
TextColumns(tbl, first) ==
  {c \in 1..Len(tbl.cols) :
     /\ first # NoRow
     /\ \/ Contains(Lower(Chars(TypeOf(first[c]))), Chars("text"))
        \/ Contains(Lower(Chars(TypeOf(first[c]))), Chars("varchar"))}

\* the rows of a table left by _clean_sqlite_database: PRAGMA table_info and SELECT
\* typeof raise sqlite3.Error on a name that cannot stand unquoted, and the table is
\* passed over; otherwise the keyword DELETEs on the text columns, then the DELETE of
\* a cache table
BasicPurgedRows(table, tbl, first, keywords) ==
  IF ~PlainIdentifier(table) \/ \E c \in 1..Len(tbl.cols) : ~PlainIdentifier(tbl.cols[c])
  THEN tbl.rows
  ELSE IF IsCacheTable(table, BasicCachePatterns) THEN {}
  ELSE LET text_columns == TextColumns(tbl, first)
       IN {r \in tbl.rows :
             ~\E k \in 1..Len(keywords) : \E c \in text_columns : Like(r[c], keywords[k])}

\* DataCleaner._clean_sqlite_database; first = for each table the row that LIMIT 1
\* reads; err as in _clean_sqlite_advanced
CleanSqliteDatabase(db, keywords, first, err) ==
  LET new == [t \in DOMAIN db |->
                [db[t] EXCEPT !.rows = BasicPurgedRows(t, db[t], first[t], keywords)]]
      RECURSIVE Count(_)
      Count(S) == IF S = {} THEN 0
                  ELSE LET t == CHOOSE x \in S : TRUE
                       IN Cardinality(db[t].rows \ new[t].rows) + Count(S \ {t})
      cleaned_records == Count(DOMAIN db)
      result(ok, data, n, c, v, closed) ==
        [ok |-> ok, data |-> data, cleaned |-> n, committed |-> c, vacuumed |-> v,
         closed |-> closed]
  IN IF err.open THEN result(FALSE, db, 0, FALSE, FALSE, TRUE)
     ELSE IF cleaned_records = 0 THEN result(TRUE, db, 0, FALSE, FALSE, TRUE)
     ELSE IF err.commit THEN result(FALSE, db, cleaned_records, FALSE, FALSE, FALSE)
     ELSE IF err.vacuum THEN result(FALSE, new, cleaned_records, TRUE, FALSE, FALSE)
     ELSE result(TRUE, new, cleaned_records, TRUE, TRUE, TRUE)

\* AdvancedDataCleaner._clean_sqlite_advanced; err.open = connect raises, err.commit and
\* err.vacuum as in a rotation; conn.close() is reached only when nothing raised
CleanSqliteAdvanced(db, keywords, cache_patterns, err) ==
  LET new == PurgeTables(db, TablesOf(db), 1, keywords, cache_patterns)
      RECURSIVE Count(_)
      Count(S) == IF S = {} THEN 0
                  ELSE LET t == CHOOSE x \in S : TRUE
                       IN Cardinality(db[t].rows \ new[t].rows) + Count(S \ {t})
      cleaned_records == Count(DOMAIN db)
      result(ok, data, n, c, v, closed) ==
        [ok |-> ok, data |-> data, cleaned |-> n, committed |-> c, vacuumed |-> v,
         closed |-> closed]
  IN IF err.open THEN result(FALSE, db, 0, FALSE, FALSE, TRUE)
     ELSE IF cleaned_records = 0 THEN result(TRUE, db, 0, FALSE, FALSE, TRUE)
     ELSE IF err.commit THEN result(FALSE, db, cleaned_records, FALSE, FALSE, FALSE)
     ELSE IF err.vacuum THEN result(FALSE, new, cleaned_records, TRUE, FALSE, FALSE)
     ELSE result(TRUE, new, cleaned_records, TRUE, TRUE, TRUE)

\* ------------------------------------------------------------------------
\* Cache eviction of one directory
\* ------------------------------------------------------------------------
ChildrenOf(f, dir) == {p \in AllPaths : Exists(f, p) /\ IsUnder(dir, p) /\ Len(p) = Len(dir) + 1}

\* a clearing that removes the directory along with what it holds
ClearDirectoryAndItself(f, dir, t, stuck) ==
  [p \in AllPaths |-> IF IsUnder(dir, p) THEN NoNode ELSE f[p]]

\* AdvancedDataCleaner._clear_directory_contents; stuck = the items whose removal raises
ClearDirectoryContents(f, dir, t, stuck) ==
  LET gone == ChildrenOf(f, dir) \ stuck
  IN [p \in AllPaths |->
        IF \E c \in gone : IsUnder(c, p) THEN NoNode
        ELSE IF p = dir /\ gone # {} THEN [f[p] EXCEPT !.mtime = t]
        ELSE f[p]]

\* the state of _clean_cache_advanced before anything was scanned: scanned = the paths
\* in dir_paths, backed = the paths handed to _create_backup, cleared = the paths handed
\* to _clear_directory_contents, raised = an exception left the method
EvictionStart(f, bdir) ==
  [fs |-> f, bdir |-> bdir, ok |-> TRUE, raised |-> FALSE, scanned |-> {}, backed |-> {},
   cleared |-> {}, backups |-> <<>>]

\* the "for dir_path in iterator" loop of _clean_cache_advanced, from path i on;
\* e = the cleaner (root, app, opts, dry_run), the clock t, the items that cannot
\* be removed (stuck) and the paths on which exists() raises (unreadable)
RECURSIVE EvictPaths(_, _, _, _, _)
EvictPaths(st, dir_paths, i, nm, e) ==
  IF i > Len(dir_paths) \/ st.raised THEN st
  ELSE LET dir_path == dir_paths[i]
           b == CreateBackup(st.fs, st.bdir, e.opts, e.t, dir_path, <<e.app, "cache", nm>>, "ok")
           backed_up == [st EXCEPT !.bdir = b.dir, !.backed = @ \cup {dir_path},
                                   !.backups = IF b.ret = NoBackup THEN @ ELSE Append(@, b.ret)]
           next == IF dir_path \in e.unreadable THEN [st EXCEPT !.raised = TRUE]
                   ELSE IF ~Exists(st.fs, dir_path) THEN st
                   ELSE IF e.dry_run THEN backed_up
                   ELSE IF st.fs[dir_path].kind # "dir"
                     THEN [backed_up EXCEPT !.ok = FALSE, !.cleared = @ \cup {dir_path}]
                   ELSE [backed_up EXCEPT
                           !.fs = ClearDirectoryContents(st.fs, dir_path, e.t, e.stuck),
                           !.cleared = @ \cup {dir_path}]
       IN Then({EvictPaths(d, dir_paths, i + 1, nm, e) : d \in {next}})

\* AdvancedDataCleaner._clean_cache_advanced: the "for dir_name in cache_dirs" loop,
\* from name j on
RECURSIVE CleanCacheAdvanced(_, _, _, _)
CleanCacheAdvanced(st, cache_dirs, j, e) ==
  IF j > Len(cache_dirs) \/ st.raised THEN st
  ELSE LET dir_paths == RGlobName(st.fs, e.root, cache_dirs[j])
           found == [st EXCEPT !.scanned = @ \cup Range(dir_paths)]
       IN Then({CleanCacheAdvanced(d, cache_dirs, j + 1, e) :
                  d \in {EvictPaths(found, dir_paths, 1, cache_dirs[j], e)}})

\* ------------------------------------------------------------------------
\* State of a run of advanced_cleaner.main
\* ------------------------------------------------------------------------
VARIABLES
  config,            \* AdvancedDataCleaner.config
  dry_run,           \* AdvancedDataCleaner.dry_run
  app_data_paths,    \* AdvancedDataCleaner.app_data_paths
  backup_base_dir,   \* the entries of the directory AdvancedDataCleaner.backup_base_dir
  fs,                \* the files and directories under the data roots
  running,           \* the applications that have a process in the process list
  env,               \* what is broken in the environment during the run
  now,               \* datetime.now(), in seconds
  apps_to_clean,     \* main: apps_to_clean
  idx,               \* main: position of the for loop over apps_to_clean
  pc,                \* the statement the run is at; "crashed" after an uncaught exception
  todo,              \* the rest of the list the current phase iterates over
  cache_names,       \* _clean_cache_advanced: the rest of cache_dirs
  dir_name,          \* _clean_cache_advanced: dir_name
  success,           \* clean_application_advanced: success
  phase_ok,          \* the local success of the phase that is running
  backups_created,   \* clean_application_advanced: backups_created
  overall_success,   \* main: overall_success
  summary,           \* main: summary
  exit_code,         \* the exit status of main; -1 while it runs
  ids,               \* how many identifiers uuid.uuid4() has made
  mtime0,            \* history: modification time of the stores and caches at the start
  log,               \* history: gate decisions, phase starts and phase results
  mutated,           \* history: the paths whose content a phase changed
  unbacked,          \* history: the paths changed after _create_backup returned None for them
  op_failed,         \* history: positions in apps_to_clean where an individual operation failed
  made,              \* history: the backup paths _create_backup returned in this run
  clobbered,         \* history: the backup paths returned twice in this run
  swept,             \* history: the backup paths of this run that _clean_old_backups removed
  proc_checked,      \* history: positions in apps_to_clean for which _is_app_running ran
  ticks,             \* how many seconds the clock has advanced
  rot,               \* the store, inputs and result of a rotation taken on its own
  call               \* the inputs and result of a purge, eviction or sweep taken on its own

vars ==
  << config, dry_run, app_data_paths, backup_base_dir, fs, running, env, now,
     apps_to_clean, idx, pc, todo, cache_names, dir_name, success, phase_ok,
     backups_created, overall_success, summary, exit_code, ids, mtime0, log, mutated,
     unbacked, op_failed, made, clobbered, swept, proc_checked, ticks, rot, call >>

\* variables no step of the run changes
fixedVars == << config, dry_run, app_data_paths, running, env, apps_to_clean, mtime0, rot, call >>

\* AdvancedDataCleaner._get_default_config: cleaning_options
DefaultCleaningOptions ==
  [ telemetry_keys |-> <<"machineId", "deviceId", "sessionId">>,
    session_keys |-> <<"authToken", "accessToken", "userSession">>,
    database_keywords |-> <<"augment", "account", "session", "user">>,
    cache_directories |-> <<"Cache", "IndexedDB", "Local Storage">>,
    database_files |-> <<"state.vscdb", "storage.json">>,
    cache_table_patterns |-> <<"cache", "session", "temp", "log">>,
    registry_patterns |-> <<>> ]

StartTime == StartDay * Day
OldTime == (StartDay - OldAgeDays) * Day
RecentTime == (StartDay - 1) * Day

\* the data roots before the run; m = modification time of the store files and caches
InitialFS(m) ==
  [p \in AllPaths |->
     CASE p = <<"cursor">> -> DirNode(RecentTime)
       [] p = <<"cursor", "state.vscdb">> ->
            FileNode(m, ("ItemTable" :> ItemTableOf({<<"machineId", "X">>, <<"sessionId", "Y">>,
                                                     <<"authToken", "Z">>}))
                        @@ ("accounts" :> Table(<<"name">>, {<<V("account-42")>>, <<V("unrelated")>>})))
       [] p = <<"cursor", "storage.json">> ->
            FileNode(m, ("machineId" :> V("X")) @@ ("otherData" :> V("should-remain")))
       [] p = <<"cursor", "User">> -> DirNode(RecentTime)
       [] p = <<"cursor", "User", "state.vscdb">> ->
            FileNode(m, ("ItemTable" :> ItemTableOf({<<"deviceId", "X">>})))
       [] p = <<"cursor", "Cache">> -> DirNode(m)
       [] p = <<"cursor", "Cache", "a">> -> FileNode(m, <<V("page")>>)
       [] p = <<"cursor", "Backup">> -> DirNode(RecentTime)
       [] p = <<"cursor", "Backup", "old.db">> ->
            FileNode(m, ("accounts" :> Table(<<"name">>, {<<V("account-42")>>})))
       [] p = <<"windsurf">> -> DirNode(RecentTime)
       [] p = <<"windsurf", "state.vscdb">> ->
            FileNode(m, ("ItemTable" :> ItemTableOf({<<"machineId", "X">>})))
       [] p = <<"windsurf", "Cache">> -> DirNode(m)
       [] p = <<"windsurf", "Cache", "a">> -> FileNode(m, <<V("page")>>)
       [] OTHER -> NoNode ]

\* the backup directory before the run: one entry left by a run OldAgeDays ago
InitialBackups ==
  LET name == BackupName(<<"cursor", "telemetry", "state.vscdb">>, OldTime, FALSE)
  IN (name :> [kind |-> "file", mtime |-> OldTime, src |-> <<"cursor", "state.vscdb">>,
               snap |-> (<<"cursor", "state.vscdb">> :> FileNode(OldTime, <<>>))])

\* the options, arguments and surroundings of a run with the default configuration file
BaseScenario ==
  [ dry_run |-> FALSE, enabled |-> TRUE, compression |-> FALSE,
    retention_days |-> DefaultRetentionDays, check_running_processes |-> TRUE,
    create_restore_script |-> TRUE, applications |-> {"cursor", "windsurf"},
    apps_to_clean |-> <<"cursor", "windsurf">>, running |-> {}, mtime |-> OldTime ]

\* the runs the model covers: the base run and the runs that differ from it in one respect
Scenarios ==
  { BaseScenario,
    [BaseScenario EXCEPT !.dry_run = TRUE],
    [BaseScenario EXCEPT !.enabled = FALSE],
    [BaseScenario EXCEPT !.dry_run = TRUE, !.enabled = FALSE],
    [BaseScenario EXCEPT !.compression = TRUE],
    [BaseScenario EXCEPT !.retention_days = 0],
    [BaseScenario EXCEPT !.retention_days = 1000000],
    [BaseScenario EXCEPT !.mtime = RecentTime],
    [BaseScenario EXCEPT !.create_restore_script = FALSE],
    [BaseScenario EXCEPT !.apps_to_clean = <<"windsurf">>],
    [BaseScenario EXCEPT !.apps_to_clean = <<"windsurf", "cursor">>, !.running = {"windsurf"}],
    [BaseScenario EXCEPT !.apps_to_clean = <<"windsurf">>, !.running = {"windsurf"}],
    [BaseScenario EXCEPT !.apps_to_clean = <<"cursor">>, !.running = {"cursor"},
                         !.check_running_processes = FALSE],
    [BaseScenario EXCEPT !.applications = {"cursor", "Windsurf"},
                         !.apps_to_clean = <<"Windsurf", "cursor">>] }

\* the runs in which something of the environment is broken
FaultScenarios ==
  { BaseScenario,
    [BaseScenario EXCEPT !.enabled = FALSE],
    [BaseScenario EXCEPT !.apps_to_clean = <<"windsurf">>, !.running = {"windsurf"}] }

\* what can be broken: kind "copy" = copying path raises, "stat" = path.exists() raises,
\* "open" = the store cannot be opened, "update" = the UPDATE statements on the store
\* raise sqlite3.Error, "stuck" = the item cannot be removed, "sweep" = removing an old
\* backup raises, "pgrep" = subprocess.run raises, "script" = the restore script cannot
\* be written
FaultAtoms ==
  [kind : {"stat"}, path : {<<"cursor", "User", "state.vscdb">>, <<"cursor", "Cache">>}]
    \cup [kind : {"copy", "open", "update"}, path : {<<"cursor", "state.vscdb">>}]
    \cup [kind : {"stuck"}, path : {<<"cursor", "Cache", "a">>}]
    \cup [kind : {"sweep", "pgrep", "script"}, path : {NoPath}]

\* no rotation is taken on its own during a run of main
NoRotation == [pc |-> "none"]

\* nor a purge, an eviction or a sweep
NoCall == [pc |-> "none"]

\* the subsets of S with at most k members
RECURSIVE SubsetsUpTo(_, _)
SubsetsUpTo(S, k) ==
  IF k = 0 THEN {{}}
  ELSE LET smaller == SubsetsUpTo(S, k - 1)
       IN smaller \cup {e \cup {a} : e \in smaller, a \in S}

Init ==
  /\ \E s \in Scenarios :
       /\ config =
            [ applications |-> s.applications,
              cleaning_options |-> DefaultCleaningOptions,
              backup_options |-> [enabled |-> s.enabled, compression |-> s.compression,
                                   retention_days |-> s.retention_days],
              safety_options |-> [check_running_processes |-> s.check_running_processes,
                                   create_restore_script |-> s.create_restore_script] ]
       /\ app_data_paths = [a \in s.applications |-> RootOf(a)]
       /\ apps_to_clean = s.apps_to_clean
       /\ running = s.running
       /\ dry_run = s.dry_run
       /\ mtime0 = s.mtime
       /\ fs = InitialFS(s.mtime)
       /\ env \in IF s \in FaultScenarios THEN SubsetsUpTo(FaultAtoms, MaxFaults) ELSE {{}}
  /\ backup_base_dir = InitialBackups
  /\ now = StartTime
  /\ idx = 1
  /\ pc = "call"
  /\ todo = <<>>
  /\ cache_names = <<>>
  /\ dir_name = ""
  /\ success = TRUE
  /\ phase_ok = TRUE
  /\ backups_created = <<>>
  /\ overall_success = TRUE
  /\ summary = <<>>
  /\ exit_code = -1
  /\ ids = 0
  /\ log = <<>>
  /\ mutated = {}
  /\ unbacked = {}
  /\ op_failed = {}
  /\ made = {}
  /\ clobbered = {}
  /\ swept = {}
  /\ proc_checked = {}
  /\ ticks = 0
  /\ rot = NoRotation
  /\ call = NoCall

\* ------------------------------------------------------------------------
\* Steps of the run
\* ------------------------------------------------------------------------
\* main: app_name of the current iteration
App == apps_to_clean[idx]

\* clean_application_advanced: self.app_data_paths.get(app_name.lower())
AppPath ==
  IF LowerName(App) \in DOMAIN app_data_paths THEN app_data_paths[LowerName(App)] ELSE NoPath

Broken(kind, p) == [kind |-> kind, path |-> p] \in env

Note(l, phase, what) == Append(l, [i |-> idx, phase |-> phase, what |-> what])

Bool(b) == IF b THEN "true" ELSE "false"

\* clean_application_advanced returns result to the loop of main
Return(result) ==
  /\ overall_success' = (overall_success /\ result)
  /\ summary' = Append(summary, <<App, result>>)
  /\ idx' = idx + 1
  /\ pc' = IF idx = Len(apps_to_clean) THEN "summary" ELSE "call"

\* "success = <result of a phase>": the result of the last phase alone
AggregateLast(s, r) == r

\* "success &= <result of a phase>" in clean_application_advanced
Aggregate(s, r) == s /\ r

\* a phase raised: the except branch of clean_application_advanced
PhaseRaised(phase) ==
  /\ log' = Note(log, phase, "raised")
  /\ Return(FALSE)

\* an exception raised outside the try of clean_application_advanced: main has no
\* handler, the interpreter prints the traceback and exits with status 1
Propagates(where) ==
  /\ log' = Note(log, where, "propagated")
  /\ pc' = "crashed"
  /\ exit_code' = 1

\* AdvancedDataCleaner._is_app_running
IsAppRunning(app) == ~Broken("pgrep", NoPath) /\ app \in running

\* safety checks that look at the data root only
GateBlocksRootOnly(app, app_path) == app_path = NoPath

\* the safety checks of clean_application_advanced say "return False"
GateBlocks(app, app_path) ==
  \/ app_path = NoPath
  \/ config.safety_options.check_running_processes /\ IsAppRunning(app)

\* the safety checks call _is_app_running
GateChecksProcess(app_path) ==
  app_path # NoPath /\ config.safety_options.check_running_processes

\* clean_application_advanced up to the first phase: the safety checks, then
\* _clean_old_backups, backups_created = [], success = True and the file search of
\* _modify_telemetry_advanced
Gate ==
  /\ pc = "call"
  /\ proc_checked' = IF GateChecksProcess(AppPath) THEN proc_checked \cup {idx} ELSE proc_checked
  /\ IF GateBlocks(App, AppPath)
       THEN /\ log' = Note(log, "gate", "blocked")
            /\ Return(FALSE)
            /\ UNCHANGED <<backup_base_dir, swept, backups_created, success, todo, phase_ok,
                           exit_code>>
       ELSE IF CutoffOverflows(config.backup_options.retention_days, now)
       THEN /\ Propagates("sweep")
            /\ UNCHANGED <<backup_base_dir, swept, backups_created, success, todo, phase_ok,
                           overall_success, summary, idx>>
       ELSE /\ LET rd == config.backup_options.retention_days
                   expired == IF rd <= 0 THEN {} ELSE Expired(backup_base_dir, rd, now)
               IN \E kept \in SUBSET expired :
                    /\ (kept # {}) <=> (Broken("sweep", NoPath) /\ expired # {})
                    /\ backup_base_dir' = CleanOldBackups(backup_base_dir, rd, now, kept)
                    /\ swept' = swept \cup ((expired \ kept) \cap made)
            /\ backups_created' = <<>>
            /\ success' = TRUE
            /\ todo' = FindFilesRecursive(fs, AppPath, config.cleaning_options.database_files)
            /\ phase_ok' = TRUE
            /\ log' = Note(Note(log, "gate", "proceed"), "rotation", "begin")
            /\ pc' = "telemetry_loop"
            /\ UNCHANGED <<overall_success, summary, idx, exit_code>>
  /\ UNCHANGED <<fixedVars, fs, now, cache_names, dir_name, ids, mutated, unbacked,
                 op_failed, made, clobbered, ticks>>

\* what the operating system does to a _create_backup of path p
BackupOutcome(p) ==
  IF Broken("stat", p) THEN "stat_error"
  ELSE IF Broken("copy", p) THEN "copy_error"
  ELSE "ok"

\* what a call of _create_backup in a phase loop does to the state of the run
TakeBackup(b) ==
  /\ backup_base_dir' = b.dir
  /\ backups_created' = IF b.ret # NoBackup THEN Append(backups_created, b.ret) ELSE backups_created
  /\ made' = IF b.ret # NoBackup THEN made \cup {b.ret} ELSE made
  /\ clobbered' = IF b.ret # NoBackup /\ b.ret \in made THEN clobbered \cup {b.ret} ELSE clobbered

\* what a store or directory operation on path p does to the state of the run
Mutate(p, newfs, b) ==
  \E changed \in {{q \in AllPaths : newfs[q].kind # fs[q].kind \/ newfs[q].data # fs[q].data}} :
     /\ fs' = newfs
     /\ mutated' = IF changed # {} THEN mutated \cup {p} ELSE mutated
     /\ unbacked' = IF changed # {} /\ b.ret = NoBackup THEN unbacked \cup {p} ELSE unbacked

\* the failures the operations on the store at path p meet
StoreErr(p, keys) ==
  [NoErr EXCEPT !.open = Broken("open", p),
                !.upd = IF Broken("update", p) THEN Range(keys) ELSE {}]

SqliteSuffixes == {Chars(".vscdb"), Chars(".db"), Chars(".sqlite"), Chars(".sqlite3")}

\* the dispatch of _modify_telemetry_advanced on db_path.suffix
RotateStore(node, sfx, co, n, err, t) ==
  IF sfx \in SqliteSuffixes
    THEN LET r == ModifySqliteTelemetryAdvanced(node.data, co.telemetry_keys, co.session_keys, n, err)
         IN [ok |-> r.ok, ids |-> r.ids,
             node |-> IF r.committed THEN [node EXCEPT !.data = r.data, !.mtime = t] ELSE node]
  ELSE IF sfx = Chars(".json")
    THEN LET r == ModifyJsonTelemetryAdvanced(node.data, co.telemetry_keys, co.session_keys, n, err)
         IN [ok |-> r.ok, ids |-> r.ids,
             node |-> IF r.written THEN [node EXCEPT !.data = r.data, !.mtime = t] ELSE node]
  ELSE [ok |-> TRUE, ids |-> 0, node |-> node]

\* one iteration of "for db_path in found_files" of _modify_telemetry_advanced
TelemetryStep ==
  /\ pc = "telemetry_loop"
  /\ todo # <<>>
  /\ LET db_path == Head(todo)
         err == StoreErr(db_path, config.cleaning_options.telemetry_keys)
     IN \E b \in {CreateBackup(fs, backup_base_dir, config.backup_options, now, db_path,
                                <<App, "telemetry", Name(db_path)>>, BackupOutcome(db_path))} :
        \E r \in {RotateStore(fs[db_path], SuffixChars(Name(db_path)),
                               config.cleaning_options, ids, err, now)} :
        IF b.raised
          THEN /\ PhaseRaised("rotation")
               /\ UNCHANGED <<backup_base_dir, backups_created, made, clobbered, fs, mutated,
                              unbacked, phase_ok, ids, todo, op_failed>>
          ELSE /\ TakeBackup(b)
               /\ \E newfs \in {[fs EXCEPT ![db_path] = r.node]} : Mutate(db_path, newfs, b)
               /\ phase_ok' = (phase_ok /\ r.ok)
               /\ ids' = ids + r.ids
               /\ todo' = Tail(todo)
               /\ op_failed' = IF b.failed \/ err # NoErr
                                 THEN op_failed \cup {idx} ELSE op_failed
               /\ UNCHANGED <<log, overall_success, summary, idx, pc>>
  /\ UNCHANGED <<fixedVars, now, cache_names, dir_name, success, exit_code, swept,
                 proc_checked, ticks>>

\* _modify_telemetry_advanced returns and "success &=" it (Phase 1b runs on Windows only:
\* the model is of the other hosts); then _clean_databases_advanced builds db_files
TelemetryEnd ==
  /\ pc = "telemetry_loop"
  /\ todo = <<>>
  /\ success' = Aggregate(success, phase_ok)
  /\ log' = Note(Note(log, "rotation", Bool(phase_ok)), "purge", "begin")
  /\ todo' = DbFiles(fs, AppPath)
  /\ phase_ok' = TRUE
  /\ pc' = "databases_loop"
  /\ UNCHANGED <<fixedVars, backup_base_dir, fs, now, idx, cache_names, dir_name,
                 backups_created, overall_success, summary, exit_code, ids, mutated,
                 unbacked, op_failed, made, clobbered, swept, proc_checked, ticks>>

\* what _clean_sqlite_advanced does to the file
PurgeStore(node, co, err, t) ==
  LET r == CleanSqliteAdvanced(node.data, co.database_keywords, co.cache_table_patterns, err)
  IN [ok |-> r.ok,
      node |-> IF r.data # node.data THEN [node EXCEPT !.data = r.data, !.mtime = t] ELSE node]

\* one iteration of "for db_file in iterator" of _clean_databases_advanced
DatabasesStep ==
  /\ pc = "databases_loop"
  /\ todo # <<>>
  /\ LET db_file == Head(todo)
         err == [NoErr EXCEPT !.open = Broken("open", db_file)]
     IN \E b \in {CreateBackup(fs, backup_base_dir, config.backup_options, now, db_file,
                                <<App, "database", Name(db_file)>>, BackupOutcome(db_file))} :
        \E r \in {PurgeStore(fs[db_file], config.cleaning_options, err, now)} :
        IF IsBackupFile(db_file)
          THEN /\ todo' = Tail(todo)
               /\ UNCHANGED <<backup_base_dir, backups_created, made, clobbered, fs, mutated,
                              unbacked, phase_ok, op_failed, log, overall_success, summary,
                              idx, pc>>
          ELSE IF b.raised
          THEN /\ PhaseRaised("purge")
               /\ UNCHANGED <<backup_base_dir, backups_created, made, clobbered, fs, mutated,
                              unbacked, phase_ok, todo, op_failed>>
          ELSE /\ TakeBackup(b)
               /\ \E newfs \in {[fs EXCEPT ![db_file] = r.node]} : Mutate(db_file, newfs, b)
               /\ phase_ok' = (phase_ok /\ r.ok)
               /\ todo' = Tail(todo)
               /\ op_failed' = IF b.failed \/ err # NoErr
                                 THEN op_failed \cup {idx} ELSE op_failed
               /\ UNCHANGED <<log, overall_success, summary, idx, pc>>
  /\ UNCHANGED <<fixedVars, now, cache_names, dir_name, success, exit_code, ids, swept,
                 proc_checked, ticks>>

\* _clean_databases_advanced returns and "success &=" it; then _clean_cache_advanced starts
DatabasesEnd ==
  /\ pc = "databases_loop"
  /\ todo = <<>>
  /\ success' = Aggregate(success, phase_ok)
  /\ log' = Note(Note(log, "purge", Bool(phase_ok)), "eviction", "begin")
  /\ cache_names' = config.cleaning_options.cache_directories
  /\ phase_ok' = TRUE
  /\ pc' = "cache_loop"
  /\ UNCHANGED <<fixedVars, backup_base_dir, fs, now, idx, todo, dir_name, backups_created,
                 overall_success, summary, exit_code, ids, mutated, unbacked, op_failed,
                 made, clobbered, swept, proc_checked, ticks>>

\* one iteration of "for dir_name in cache_dirs": dir_paths = list(app_path.rglob(dir_name))
CacheScan ==
  /\ pc = "cache_loop"
  /\ todo = <<>>
  /\ cache_names # <<>>
  /\ dir_name' = Head(cache_names)
  /\ cache_names' = Tail(cache_names)
  /\ todo' = RGlobName(fs, AppPath, Head(cache_names))
  /\ UNCHANGED <<fixedVars, backup_base_dir, fs, now, idx, pc, success, phase_ok,
                 backups_created, overall_success, summary, exit_code, ids, log, mutated,
                 unbacked, op_failed, made, clobbered, swept, proc_checked, ticks>>

\* one iteration of "for dir_path in iterator" of _clean_cache_advanced
CacheStep ==
  /\ pc = "cache_loop"
  /\ todo # <<>>
  /\ LET dir_path == Head(todo)
         stuck == {c \in ChildrenOf(fs, dir_path) : Broken("stuck", c)}
         not_a_dir == fs[dir_path].kind = "file"
     IN \E b \in {CreateBackup(fs, backup_base_dir, config.backup_options, now, dir_path,
                                <<App, "cache", dir_name>>, BackupOutcome(dir_path))} :
        \E newfs \in {IF dry_run \/ not_a_dir THEN fs
                       ELSE ClearDirectoryContents(fs, dir_path, now, stuck)} :
        IF b.raised
          THEN /\ PhaseRaised("eviction")
               /\ UNCHANGED <<backup_base_dir, backups_created, made, clobbered, fs, mutated,
                              unbacked, phase_ok, todo, op_failed>>
          ELSE /\ TakeBackup(b)
               /\ Mutate(dir_path, newfs, b)
               /\ phase_ok' = (phase_ok /\ (dry_run \/ ~not_a_dir))
               /\ todo' = Tail(todo)
               /\ op_failed' = IF b.failed \/ (~dry_run /\ ~not_a_dir /\ stuck # {})
                                 THEN op_failed \cup {idx} ELSE op_failed
               /\ UNCHANGED <<log, overall_success, summary, idx, pc>>
  /\ UNCHANGED <<fixedVars, now, cache_names, dir_name, success, exit_code, ids, swept,
                 proc_checked, ticks>>

\* _clean_cache_advanced returns and "success &=" it; then the restore script, the
\* closing log line and "return success"
CacheEnd ==
  /\ pc = "cache_loop"
  /\ todo = <<>>
  /\ cache_names = <<>>
  /\ backup_base_dir' =
       IF backups_created # <<>>
         THEN CreateRestoreScript(backup_base_dir, config.safety_options, App, backups_created,
                                  now, Broken("script", NoPath))
         ELSE backup_base_dir
  /\ success' = Aggregate(success, phase_ok)
  /\ log' = Note(Note(log, "eviction", Bool(phase_ok)), "result", Bool(Aggregate(success, phase_ok)))
  /\ Return(Aggregate(success, phase_ok))
  /\ UNCHANGED <<fixedVars, fs, now, todo, cache_names, dir_name, phase_ok, backups_created,
                 exit_code, ids, mutated, unbacked, op_failed, made, clobbered, swept,
                 proc_checked, ticks>>

\* main: the summary and "return 0 if overall_success else 1"
Summary ==
  /\ pc = "summary"
  /\ exit_code' = IF overall_success THEN 0 ELSE 1
  /\ pc' = "done"
  /\ UNCHANGED <<fixedVars, backup_base_dir, fs, now, idx, todo, cache_names, dir_name,
                 success, phase_ok, backups_created, overall_success, summary, ids, log,
                 mutated, unbacked, op_failed, made, clobbered, swept, proc_checked, ticks>>

\* a second passes before a step that reads the clock
Tick ==
  /\ pc \in {"telemetry_loop", "databases_loop", "cache_loop"}
  /\ todo # <<>>
  /\ ticks < MaxTicks
  /\ now' = now + 1
  /\ ticks' = ticks + 1
  /\ UNCHANGED <<fixedVars, backup_base_dir, fs, idx, pc, todo, cache_names, dir_name,
                 success, phase_ok, backups_created, overall_success, summary, exit_code, ids,
                 log, mutated, unbacked, op_failed, made, clobbered, swept, proc_checked>>

Step ==
  \/ Gate
  \/ TelemetryStep \/ TelemetryEnd
  \/ DatabasesStep \/ DatabasesEnd
  \/ CacheScan \/ CacheStep \/ CacheEnd
  \/ Summary

Next == Step \/ Tick

Spec == Init /\ [][Next]_vars

\* main is one sequential thread that is never suspended for ever
FairSpec == Spec /\ WF_vars(Step)

\* ------------------------------------------------------------------------
\* The rotation of one key-value store, called on its own (as the tests call it)
\* ------------------------------------------------------------------------
\* how many times in a row the store is rotated
MaxRotations == 2

RotationKeys == {"machineId", "deviceId", "sessionId", "lastSessionId", "authToken"}

\* the stores rotated: an ItemTable holding any of RotationKeys, a store without
\* ItemTable, and a store whose ItemTable has no column named value
RotationStores ==
  { ("ItemTable" :> ItemTableOf({<<k, "X">> : k \in ks})) : ks \in SUBSET RotationKeys }
    \cup { ("accounts" :> Table(<<"name">>, {<<V("unrelated")>>})) }
    \cup { ("ItemTable" :> Table(<<"key", "val">>, {<<V("machineId"), V("X")>>,
                                                   <<V("authToken"), V("Z")>>})) }

\* the storage.json objects rotated: any of RotationKeys next to an unrelated key
RotationJsonStores ==
  { [k \in ks \cup {"otherData"} |-> IF k = "otherData" THEN V("should-remain") ELSE V("X")] :
      ks \in SUBSET RotationKeys }

\* the key lists of the default configuration, of the configuration of the tests,
\* lists that share a key, and a list with a key that spells Session with a capital
RotationKeyLists ==
  { [telemetry_keys |-> DefaultCleaningOptions.telemetry_keys,
     session_keys |-> DefaultCleaningOptions.session_keys],
    [telemetry_keys |-> <<"machineId", "deviceId">>, session_keys |-> <<"authToken", "sessionId">>],
    [telemetry_keys |-> <<"machineId", "authToken">>, session_keys |-> <<"authToken">>],
    [telemetry_keys |-> <<"machineId", "lastSessionId", "sessionId">>,
     session_keys |-> <<"authToken">>] }

RotationFailures ==
  { NoErr,
    [NoErr EXCEPT !.open = TRUE],
    [NoErr EXCEPT !.commit = TRUE],
    [NoErr EXCEPT !.vacuum = TRUE],
    [NoErr EXCEPT !.upd = {"machineId"}],
    [NoErr EXCEPT !.del = {"authToken"}] }

\* the state of the run of main while a rotation is looked at on its own
IdleRun ==
  /\ config = [applications |-> {}, cleaning_options |-> DefaultCleaningOptions,
               backup_options |-> [enabled |-> TRUE, compression |-> FALSE,
                                   retention_days |-> DefaultRetentionDays],
               safety_options |-> [check_running_processes |-> TRUE,
                                   create_restore_script |-> TRUE]]
  /\ dry_run = FALSE
  /\ app_data_paths = <<>>
  /\ backup_base_dir = <<>>
  /\ fs = InitialFS(RecentTime)
  /\ running = {}
  /\ env = {}
  /\ now = StartTime
  /\ apps_to_clean = <<>>
  /\ idx = 1
  /\ pc = "done"
  /\ todo = <<>>
  /\ cache_names = <<>>
  /\ dir_name = ""
  /\ success = TRUE
  /\ phase_ok = TRUE
  /\ backups_created = <<>>
  /\ overall_success = TRUE
  /\ summary = <<>>
  /\ exit_code = 0
  /\ ids = 0
  /\ mtime0 = RecentTime
  /\ log = <<>>
  /\ mutated = {}
  /\ unbacked = {}
  /\ op_failed = {}
  /\ made = {}
  /\ clobbered = {}
  /\ swept = {}
  /\ proc_checked = {}
  /\ ticks = 0

runVars ==
  << config, dry_run, app_data_paths, backup_base_dir, fs, running, env, now,
     apps_to_clean, idx, pc, todo, cache_names, dir_name, success, phase_ok,
     backups_created, overall_success, summary, exit_code, ids, mtime0, log, mutated,
     unbacked, op_failed, made, clobbered, swept, proc_checked, ticks >>

\* the failures of a rotation of storage.json: the file cannot be read, cannot be written
RotationJsonFailures ==
  { NoErr, [NoErr EXCEPT !.open = TRUE], [NoErr EXCEPT !.commit = TRUE] }

\* a rotation about to be called; committed, vacuumed = what the last call got done
ReadyRotation(cleaner, keys, err, db) ==
  [pc |-> "ready", cleaner |-> cleaner, keys |-> keys, err |-> err, before |-> db, db |-> db,
   ok |-> FALSE, n0 |-> 0, n |-> 0, count |-> 0, committed |-> FALSE, vacuumed |-> FALSE,
   unclosed |-> 0]

InitRotate ==
  /\ IdleRun
  /\ call = NoCall
  /\ \/ \E db \in RotationStores : \E err \in RotationFailures :
          \/ \E keys \in RotationKeyLists : rot = ReadyRotation("advanced", keys, err, db)
          \/ rot = ReadyRotation("basic", [telemetry_keys |-> BasicTelemetryKeys,
                                           session_keys |-> BasicSessionKeys], err, db)
     \/ \E obj \in RotationJsonStores : \E err \in RotationJsonFailures :
          \/ \E keys \in RotationKeyLists : rot = ReadyRotation("json", keys, err, obj)
          \/ rot = ReadyRotation("basicjson", [telemetry_keys |-> BasicJsonTelemetryKeys,
                                               session_keys |-> BasicJsonSessionKeys], err, obj)

\* what a call of a rotation leaves: the file as committed, the result, the identifiers used
Rotated(r) ==
  [rot EXCEPT !.pc = "rotated", !.before = rot.db,
              !.db = IF r.committed THEN r.data ELSE rot.db,
              !.ok = r.ok, !.n0 = rot.n, !.n = rot.n + r.ids, !.count = rot.count + 1,
              !.committed = r.committed, !.vacuumed = r.vacuumed,
              !.unclosed = IF r.closed THEN rot.unclosed ELSE rot.unclosed + 1]

\* a call of AdvancedDataCleaner._modify_sqlite_telemetry_advanced
RotateAdvanced ==
  /\ rot.pc \in {"ready", "rotated"}
  /\ rot.cleaner = "advanced"
  /\ rot.count < MaxRotations
  /\ rot' = Rotated(ModifySqliteTelemetryAdvanced(rot.db, rot.keys.telemetry_keys,
                                                  rot.keys.session_keys, rot.n, rot.err))
  /\ UNCHANGED << runVars, call >>

\* a call of DataCleaner._modify_sqlite_telemetry
RotateBasic ==
  /\ rot.pc \in {"ready", "rotated"}
  /\ rot.cleaner = "basic"
  /\ rot.count < MaxRotations
  /\ rot' = Rotated(ModifySqliteTelemetry(rot.db, rot.n, rot.err))
  /\ UNCHANGED << runVars, call >>

\* a call of AdvancedDataCleaner._modify_json_telemetry_advanced
RotateJson ==
  /\ rot.pc \in {"ready", "rotated"}
  /\ rot.cleaner = "json"
  /\ rot.count < MaxRotations
  /\ \E r \in {ModifyJsonTelemetryAdvanced(rot.db, rot.keys.telemetry_keys,
                                             rot.keys.session_keys, rot.n, rot.err)} :
       rot' = Rotated([ok |-> r.ok, data |-> r.data, ids |-> r.ids, committed |-> r.written,
                       vacuumed |-> FALSE, closed |-> TRUE])
  /\ UNCHANGED << runVars, call >>

\* a call of DataCleaner._modify_json_telemetry
RotateJsonBasic ==
  /\ rot.pc \in {"ready", "rotated"}
  /\ rot.cleaner = "basicjson"
  /\ rot.count < MaxRotations
  /\ \E r \in {ModifyJsonTelemetry(rot.db, rot.n, rot.err)} :
       rot' = Rotated([ok |-> r.ok, data |-> r.data, ids |-> r.ids, committed |-> r.written,
                       vacuumed |-> FALSE, closed |-> TRUE])
  /\ UNCHANGED << runVars, call >>

\* the interpreter finalises the connection objects that no call closed; when it does
\* so is up to the garbage collector
CollectGarbage ==
  /\ rot.pc = "rotated"
  /\ rot.unclosed > 0
  /\ rot' = [rot EXCEPT !.unclosed = 0]
  /\ UNCHANGED << runVars, call >>

NextRotate == RotateAdvanced \/ RotateBasic \/ RotateJson \/ RotateJsonBasic \/ CollectGarbage

SpecRotate == InitRotate /\ [][NextRotate]_vars

\* ------------------------------------------------------------------------
\* The keyword purge of one store, called on its own
\* ------------------------------------------------------------------------
\* the tables a purged store can hold: tables of user data, one of them with a column
\* named by a keyword of SQL, and cache tables, one of them with a name that a
\* statement cannot hold unquoted
PurgeTableSet ==
  ("accounts" :> Table(<<"name">>, {<<V("account-42")>>, <<V("ACCOUNT-42")>>, <<V("unrelated")>>}))
    @@ ("notes" :> Table(<<"name", "order">>, {<<V("n1"), V("account-42")>>,
                                               <<V("account-7"), V("o2")>>,
                                               <<V("unrelated"), V("o3")>>}))
    @@ ("http_cache" :> Table(<<"url">>, {<<V("page")>>}))
    @@ ("HTTP_Cache" :> Table(<<"url">>, {<<V("page")>>, <<V("unrelated")>>}))
    @@ ("temp-log" :> Table(<<"name">>, {<<V("page")>>}))

\* the stores purged: any choice of these tables
PurgeStores == { [t \in ts |-> PurgeTableSet[t]] : ts \in SUBSET DOMAIN PurgeTableSet }

\* database_keywords: the default list, one keyword, a keyword with a capital, none
PurgeKeywordLists ==
  { DefaultCleaningOptions.database_keywords, <<"account">>, <<"Account">>, <<>> }

\* cache_table_patterns: the default list, a pattern with a capital, none
PurgePatternLists == { DefaultCleaningOptions.cache_table_patterns, <<"Cache">>, <<>> }

PurgeFailures ==
  { NoErr, [NoErr EXCEPT !.open = TRUE], [NoErr EXCEPT !.commit = TRUE],
    [NoErr EXCEPT !.vacuum = TRUE] }

InitPurge ==
  /\ IdleRun
  /\ rot = NoRotation
  /\ \E db \in PurgeStores : \E kw \in PurgeKeywordLists : \E cp \in PurgePatternLists :
       \E err \in PurgeFailures :
         call = [pc |-> "ready", op |-> "purge", before |-> db, db |-> db, keywords |-> kw,
                 cache_patterns |-> cp, err |-> err, ok |-> FALSE, cleaned |-> 0,
                 committed |-> FALSE, vacuumed |-> FALSE, unclosed |-> 0]

\* a call of AdvancedDataCleaner._clean_sqlite_advanced
CallPurge ==
  /\ call.pc = "ready"
  /\ call.op = "purge"
  /\ \E r \in {CleanSqliteAdvanced(call.db, call.keywords, call.cache_patterns, call.err)} :
       call' = [call EXCEPT !.pc = "returned", !.db = r.data, !.ok = r.ok,
                            !.cleaned = r.cleaned, !.committed = r.committed,
                            !.vacuumed = r.vacuumed,
                            !.unclosed = IF r.closed THEN 0 ELSE 1]
  /\ UNCHANGED << runVars, rot >>

NextPurge == CallPurge

SpecPurge == InitPurge /\ [][NextPurge]_vars

\* ------------------------------------------------------------------------
\* The cache eviction of one data root, called on its own
\* ------------------------------------------------------------------------
\* the trees evicted: the root of cursor with a store and the directory User, and any
\* of a cache directory, a cache directory nested in it, and a regular file named Cache
EvictionTrees ==
  { [p \in AllPaths |->
       CASE p \in {<<"cursor">>, <<"cursor", "User">>} -> DirNode(RecentTime)
         [] p = <<"cursor", "state.vscdb">> -> FileNode(RecentTime, <<>>)
         [] p = <<"cursor", "Cache">> /\ "cache" \in has -> DirNode(RecentTime)
         [] p = <<"cursor", "Cache", "a">> /\ "cache" \in has -> FileNode(RecentTime, <<V("page")>>)
         [] p = <<"cursor", "Cache", "Cache">> /\ {"cache", "nested"} \subseteq has ->
              DirNode(RecentTime)
         [] p = <<"cursor", "Cache", "Cache", "b">> /\ {"cache", "nested"} \subseteq has ->
              FileNode(RecentTime, <<V("page")>>)
         [] p = <<"cursor", "User", "Cache">> /\ "file" \in has ->
              FileNode(RecentTime, <<V("unrelated")>>)
         [] OTHER -> NoNode] :
      has \in SUBSET {"cache", "nested", "file"} }

\* cache_directories: the default list, one name, a list that names a directory above
\* a cache, none
EvictionNameLists ==
  { DefaultCleaningOptions.cache_directories, <<"Cache">>, <<"User", "Cache">>, <<>> }

\* what is broken during an eviction: nothing, an item that cannot be removed, a
\* candidate on which exists() raises
EvictionFaults ==
  { [stuck |-> {}, unreadable |-> {}],
    [stuck |-> {<<"cursor", "Cache", "a">>}, unreadable |-> {}],
    [stuck |-> {<<"cursor", "Cache", "Cache">>}, unreadable |-> {}],
    [stuck |-> {}, unreadable |-> {<<"cursor", "Cache", "Cache">>}] }

InitEvict ==
  /\ IdleRun
  /\ rot = NoRotation
  /\ \E f \in EvictionTrees : \E names \in EvictionNameLists : \E dry \in BOOLEAN :
       \E enabled \in BOOLEAN : \E fault \in EvictionFaults :
         call = [pc |-> "ready", op |-> "evict", cache_dirs |-> names,
                 e |-> [root |-> <<"cursor">>, app |-> "cursor", dry_run |-> dry, t |-> StartTime,
                        opts |-> [enabled |-> enabled, compression |-> FALSE,
                                  retention_days |-> DefaultRetentionDays],
                        stuck |-> fault.stuck, unreadable |-> fault.unreadable],
                 before |-> f, st |-> EvictionStart(f, <<>>)]

\* a call of AdvancedDataCleaner._clean_cache_advanced
CallEvict ==
  /\ call.pc = "ready"
  /\ call.op = "evict"
  /\ \E r \in {CleanCacheAdvanced(call.st, call.cache_dirs, 1, call.e)} :
       call' = [call EXCEPT !.pc = IF r.raised THEN "raised" ELSE "returned", !.st = r]
  /\ UNCHANGED << runVars, rot >>

NextEvict == CallEvict

SpecEvict == InitEvict /\ [][NextEvict]_vars

\* ------------------------------------------------------------------------
\* The retention sweep of the backup directory, called on its own
\* ------------------------------------------------------------------------
\* the names of three entries of the backup directory
SweepNames ==
  { BackupName(<<"cursor", "telemetry", "state.vscdb">>, OldTime, FALSE),
    BackupName(<<"cursor", "db", "state.vscdb">>, OldTime, FALSE),
    BackupName(<<"windsurf", "telemetry", "state.vscdb">>, OldTime, FALSE) }

\* backup_options.retention_days: negative, zero, one day, the default, a number of
\* days that reaches before datetime.min
SweepRetentions == {-1, 0, 1, DefaultRetentionDays, 1000000}

\* modification times one second before, at and one second after the cutoff of a sweep
\* with the given retention
TimesAround(retention_days) ==
  LET days == IF retention_days \in {1, DefaultRetentionDays} THEN retention_days
              ELSE DefaultRetentionDays
      cutoff == StartTime - days * Day
  IN {cutoff - 1, cutoff, cutoff + 1}

\* the orders in which iterdir() lists the entries
SweepOrders ==
  {o \in [1..Cardinality(SweepNames) -> SweepNames] : \A n \in SweepNames : \E i \in DOMAIN o : o[i] = n}

\* what is broken during a sweep: nothing, the removal of one entry, stat() of one entry
SweepFaults ==
  {[stuck |-> {}, unreadable |-> {}]}
    \cup {[stuck |-> {n}, unreadable |-> {}] : n \in SweepNames}
    \cup {[stuck |-> {}, unreadable |-> {n}] : n \in SweepNames}

InitSweep ==
  /\ IdleRun
  /\ rot = NoRotation
  /\ \E d \in SweepRetentions : \E mt \in [SweepNames -> TimesAround(d)] :
       \E order \in SweepOrders : \E fault \in SweepFaults :
         call = [pc |-> "ready", op |-> "sweep", retention_days |-> d, t |-> StartTime,
                 order |-> order, stuck |-> fault.stuck, unreadable |-> fault.unreadable,
                 before |-> [n \in SweepNames |->
                               [kind |-> "file", mtime |-> mt[n], src |-> NoPath, snap |-> <<>>]],
                 bdir |-> [n \in SweepNames |->
                             [kind |-> "file", mtime |-> mt[n], src |-> NoPath, snap |-> <<>>]]]

\* a call of AdvancedDataCleaner._clean_old_backups
CallSweep ==
  /\ call.pc = "ready"
  /\ call.op = "sweep"
  /\ IF CutoffOverflows(call.retention_days, call.t)
       THEN call' = [call EXCEPT !.pc = "raised"]
       ELSE \E kept \in {KeptByFailure(call.bdir, call.order, call.unreadable, call.stuck,
                                       call.retention_days, call.t)} :
              call' = [call EXCEPT !.pc = "returned",
                                   !.bdir = CleanOldBackups(call.bdir, call.retention_days,
                                                            call.t, kept)]
  /\ UNCHANGED << runVars, rot >>

NextSweep == CallSweep

SpecSweep == InitSweep /\ [][NextSweep]_vars

\* ---------------------------------------------------------------------------
\* Where the backups are kept, relative to the data roots the configuration names
\* ---------------------------------------------------------------------------

\* Path.home()
HomeDir == <<"home">>

\* AdvancedDataCleaner._get_backup_directory
GetBackupDirectory == HomeDir \o <<"CursorWindsurf_Advanced_Backups">>

\* the data roots a configuration may name, after expanduser and expandvars: the
\* application's own directory, one that is absent, and the home directory
LayoutTemplates ==
  { <<HomeDir \o <<".config", "Cursor">>>>,
    <<HomeDir \o <<".config", "Absent">>, HomeDir \o <<".config", "Cursor">>>>,
    <<HomeDir>>,
    <<HomeDir \o <<".config", "Absent">>, HomeDir>> }

\* what an application keeps under its data root
LayoutContents ==
  { {<<"Cache">>, <<"Cache", "a">>},
    {<<"Cache">>, <<"Cache", "IndexedDB">>, <<"Cache", "IndexedDB", "x">>},
    {<<"Cache">>, <<"Cache", "a">>, <<"IndexedDB">>, <<"IndexedDB", "x">>},
    {<<"IndexedDB">>, <<"IndexedDB", "Cache">>, <<"IndexedDB", "Cache", "a">>} }

LayoutNameLists == { <<"Cache", "IndexedDB">>, <<"IndexedDB", "Cache">>, <<"Cache">> }

Ancestors(p) == {SubSeq(p, 1, k) : k \in 1..Len(p)}

\* the tree when the cleaner is constructed: the home directory, the data root with its
\* contents, and the backup directory that _get_backup_directory makes
LayoutTree(root, contents) ==
  Ancestors(root) \cup {root \o c : c \in contents} \cup Ancestors(GetBackupDirectory)

\* AdvancedDataCleaner._discover_app_data_paths for one application: the first
\* template that exists, or None
DiscoverAppDataPath(tree, templates) ==
  LET found == {k \in 1..Len(templates) : templates[k] \in tree}
  IN IF found = {} THEN <<>> ELSE templates[CHOOSE k \in found : \A m \in found : k <= m]

\* Path.rglob(name) on a tree given as the set of its paths
RGlobTree(tree, root, nm) == {p \in tree : IsUnder(root, p) /\ p # root /\ Name(p) = nm}

\* the name _create_backup gives the copy of a cache directory at second sec
CacheBackupName(nm, sec) ==
  CASE nm = "Cache" /\ sec = 0 -> "cursor_cache_Cache_0"
    [] nm = "Cache" /\ sec = 1 -> "cursor_cache_Cache_1"
    [] nm = "Cache" -> "cursor_cache_Cache_2"
    [] nm = "IndexedDB" /\ sec = 0 -> "cursor_cache_IndexedDB_0"
    [] nm = "IndexedDB" /\ sec = 1 -> "cursor_cache_IndexedDB_1"
    [] OTHER -> "cursor_cache_IndexedDB_2"

\* AdvancedDataCleaner._create_backup of a directory: copytree to the backup
\* directory, None when the destination exists already
CopyTreeToBackup(tree, source, dest) ==
  IF dest \in tree THEN [tree |-> tree, backup_path |-> <<>>]
  ELSE [tree |-> tree \cup {dest \o SubSeq(p, Len(source) + 1, Len(p)) :
                              p \in {q \in tree : IsUnder(source, q)}},
        backup_path |-> dest]

\* AdvancedDataCleaner._clear_directory_contents on a tree given as the set of its paths
ClearTreeContents(tree, dir) == {p \in tree : ~(IsUnder(dir, p) /\ p # dir)}

InitLayout ==
  /\ IdleRun
  /\ rot = NoRotation
  /\ \E templates \in LayoutTemplates : \E contents \in LayoutContents :
       \E names \in LayoutNameLists :
         LET at == templates[Len(templates)]
             tree == LayoutTree(at, contents)
         IN call = [pc |-> "scan", op |-> "layout", tree |-> tree,
                    root |-> DiscoverAppDataPath(tree, templates),
                    cache_dirs |-> names, j |-> 1, dir_paths |-> {}, sec |-> 0,
                    written |-> {}, scanned |-> {}, evicted |-> {}]

\* _clean_cache_advanced: dir_paths = list(app_path.rglob(dir_name))
LayoutScan ==
  /\ call.op = "layout"
  /\ call.pc = "scan"
  /\ IF call.j > Len(call.cache_dirs)
     THEN call' = [call EXCEPT !.pc = "returned"]
     ELSE \E found \in {RGlobTree(call.tree, call.root, call.cache_dirs[call.j])} :
            call' = [call EXCEPT !.pc = "evict", !.dir_paths = found,
                                 !.scanned = @ \cup found]
  /\ UNCHANGED << runVars, rot >>

\* _clean_cache_advanced: the body of the loop for one of the directories found, in
\* the order the file system lists them
LayoutEvict ==
  /\ call.op = "layout"
  /\ call.pc = "evict"
  /\ IF call.dir_paths = {}
     THEN call' = [call EXCEPT !.pc = "scan", !.j = @ + 1]
     ELSE \E found_path \in call.dir_paths :
            IF found_path \notin call.tree
            THEN call' = [call EXCEPT !.dir_paths = @ \ {found_path}]
            ELSE \E b \in {CopyTreeToBackup(call.tree, found_path,
                              GetBackupDirectory \o
                                <<CacheBackupName(call.cache_dirs[call.j], call.sec)>>)} :
                   call' = [call EXCEPT
                     !.dir_paths = @ \ {found_path},
                     !.tree = ClearTreeContents(b.tree, found_path),
                     !.written = IF b.backup_path = <<>> THEN @ ELSE @ \cup {b.backup_path},
                     !.evicted = @ \cup {found_path}]
  /\ UNCHANGED << runVars, rot >>

\* a second passes between two steps
LayoutTick ==
  /\ call.op = "layout"
  /\ call.pc \in {"scan", "evict"}
  /\ call.sec < MaxTicks
  /\ call' = [call EXCEPT !.sec = @ + 1]
  /\ UNCHANGED << runVars, rot >>

NextLayout == LayoutScan \/ LayoutEvict \/ LayoutTick

SpecLayout == InitLayout /\ [][NextLayout]_vars

\* ---------------------------------------------------------------------------
\* Loading a configuration document and cleaning one application with it
\* ---------------------------------------------------------------------------

\* the documents at config_path: file = whether it is there and whether json.load
\* accepts it; top, cleaning_options = the JSON type found where an object is expected;
\* telemetry_keys, database_keywords, cache_directories = the JSON type found where a
\* list of strings is expected
WellFormedDocument ==
  [file |-> "parsed", top |-> "object", cleaning_options |-> "object", telemetry_keys |-> "list",
   database_keywords |-> "list", cache_directories |-> "list"]

ConfigDocuments ==
  { [WellFormedDocument EXCEPT !.file = "missing"],
    [WellFormedDocument EXCEPT !.file = "unparseable"],
    [WellFormedDocument EXCEPT !.top = "array"],
    [WellFormedDocument EXCEPT !.cleaning_options = "array"] }
  \cup { [WellFormedDocument EXCEPT !.telemetry_keys = tk, !.database_keywords = kw,
                                   !.cache_directories = cd] :
           tk \in {"list", "string", "number"}, kw \in {"list", "string", "number"},
           cd \in {"list", "number"} }

\* the stores of the application cleaned
LoadStores ==
  { ("ItemTable" :> ItemTableOf({<<"machineId", "X">>, <<"notes", "keep">>})),
    ("ItemTable" :> ItemTableOf({<<"notes", "keep">>})) }

\* what a for loop over the configured value visits: the members of a list, the
\* characters of a string
TelemetryKeysOf(doc) ==
  IF doc.telemetry_keys = "list" THEN DefaultCleaningOptions.telemetry_keys ELSE Chars("machineId")

DatabaseKeywordsOf(doc) ==
  IF doc.database_keywords = "list" THEN DefaultCleaningOptions.database_keywords ELSE Chars("keep")

InitLoad ==
  /\ IdleRun
  /\ rot = NoRotation
  /\ \E doc \in ConfigDocuments : \E db \in LoadStores : \E old \in BOOLEAN :
       call = [pc |-> "start", op |-> "load", doc |-> doc, loaded |-> "nothing", db0 |-> db,
               db |-> db, old_backup |-> old, cache |-> {"a"}, swept |-> FALSE,
               backups |-> {}, success |-> TRUE, result |-> FALSE]

\* AdvancedDataCleaner.__init__: _load_config, then _get_backup_directory and
\* _discover_app_data_paths, which calls self.config.get
Construct ==
  /\ call.op = "load"
  /\ call.pc = "start"
  /\ call' = CASE call.doc.file = "missing" ->
                    [call EXCEPT !.pc = "constructed", !.loaded = "defaults"]
               [] call.doc.file = "unparseable" -> [call EXCEPT !.pc = "exited"]
               [] call.doc.top # "object" -> [call EXCEPT !.pc = "raised", !.loaded = "document"]
               [] OTHER -> [call EXCEPT !.pc = "constructed", !.loaded = "document"]
  /\ UNCHANGED << runVars, rot >>

\* the document the cleaner works with: the defaults when the file is missing
Loaded == IF call.loaded = "defaults" THEN WellFormedDocument ELSE call.doc

\* clean_application_advanced up to the telemetry phase: _clean_old_backups, then
\* cleaning_options = self.config.get("cleaning_options", {}) and its .get calls
LoadSweep ==
  /\ call.op = "load"
  /\ call.pc = "constructed"
  /\ call' = IF Loaded.cleaning_options # "object"
             THEN [call EXCEPT !.pc = "returned", !.swept = TRUE, !.old_backup = FALSE,
                               !.result = FALSE]
             ELSE [call EXCEPT !.pc = "telemetry", !.swept = TRUE, !.old_backup = FALSE]
  /\ UNCHANGED << runVars, rot >>

\* _modify_telemetry_advanced on the store: the backup, then the rotation, whose for
\* loop raises TypeError on a number inside the try of the rotation
LoadTelemetry ==
  /\ call.op = "load"
  /\ call.pc = "telemetry"
  /\ IF Loaded.telemetry_keys = "number"
     THEN call' = [call EXCEPT !.pc = "databases", !.backups = @ \cup {"telemetry"},
                               !.success = FALSE]
     ELSE \E r \in {ModifySqliteTelemetryAdvanced(call.db, TelemetryKeysOf(Loaded),
                       DefaultCleaningOptions.session_keys, 0, NoErr)} :
            call' = [call EXCEPT !.pc = "databases", !.backups = @ \cup {"telemetry"},
                                 !.db = r.data, !.success = @ /\ r.ok]
  /\ UNCHANGED << runVars, rot >>

\* _clean_databases_advanced on the store: the backup, then the purge, whose for loop
\* raises TypeError on a number inside the try of the purge, before any commit
LoadDatabases ==
  /\ call.op = "load"
  /\ call.pc = "databases"
  /\ IF Loaded.database_keywords = "number"
     THEN call' = [call EXCEPT !.pc = "cache", !.backups = @ \cup {"database"},
                               !.success = FALSE]
     ELSE \E r \in {CleanSqliteAdvanced(call.db, DatabaseKeywordsOf(Loaded),
                       DefaultCleaningOptions.cache_table_patterns, NoErr)} :
            call' = [call EXCEPT !.pc = "cache", !.backups = @ \cup {"database"},
                                 !.db = r.data, !.success = @ /\ r.ok]
  /\ UNCHANGED << runVars, rot >>

\* _clean_cache_advanced: for dir_name in cache_dirs raises TypeError on a number, which
\* the except of clean_application_advanced turns into False; otherwise the cache
\* directory is backed up and emptied and the restore script written
LoadCache ==
  /\ call.op = "load"
  /\ call.pc = "cache"
  /\ call' = IF Loaded.cache_directories = "number"
             THEN [call EXCEPT !.pc = "returned", !.result = FALSE]
             ELSE [call EXCEPT !.pc = "returned", !.backups = @ \cup {"cache", "restore"},
                               !.cache = {}, !.result = call.success]
  /\ UNCHANGED << runVars, rot >>

NextLoad == Construct \/ LoadSweep \/ LoadTelemetry \/ LoadDatabases \/ LoadCache

SpecLoad == InitLoad /\ [][NextLoad]_vars

\* ------------------------------------------------------------------------
\* The keyword purge of the basic cleaner, called on its own
\* ------------------------------------------------------------------------
\* the tables a store purged by the basic cleaner can hold: text columns, a column
\* that holds NULL in some rows, a column named by a keyword of SQL, a cache table
BasicPurgeTableSet ==
  ("accounts" :> Table(<<"name">>, {<<V("account-42")>>, <<V("unrelated")>>}))
    @@ ("notes" :> Table(<<"name", "owner">>, {<<V("n1"), Null>>,
                                               <<V("o2"), V("account-7")>>,
                                               <<V("unrelated"), V("o3")>>}))
    @@ ("ItemTable" :> Table(<<"key", "order">>, {<<V("account-42"), V("o2")>>}))
    @@ ("http_cache" :> Table(<<"url">>, {<<V("page")>>}))
    @@ ("HTTP_Cache" :> Table(<<"url">>, {}))

BasicPurgeStores ==
  { [t \in ts |-> BasicPurgeTableSet[t]] : ts \in SUBSET DOMAIN BasicPurgeTableSet }

BasicPurgeKeywordLists == { BasicKeywords, <<"account">>, <<>> }

\* the rows SELECT ... LIMIT 1 can read from the tables of a store: any row of a
\* table that has rows
FirstRows(db) ==
  {f \in [DOMAIN db -> UNION {db[t].rows : t \in DOMAIN db} \cup {NoRow}] :
     \A t \in DOMAIN db : IF db[t].rows = {} THEN f[t] = NoRow ELSE f[t] \in db[t].rows}

InitBasicPurge ==
  /\ IdleRun
  /\ rot = NoRotation
  /\ \E db \in BasicPurgeStores : \E kw \in BasicPurgeKeywordLists : \E first \in FirstRows(db) :
       \E err \in PurgeFailures :
         call = [pc |-> "ready", op |-> "basicpurge", before |-> db, db |-> db, keywords |-> kw,
                 first |-> first, err |-> err, ok |-> FALSE, cleaned |-> 0,
                 committed |-> FALSE, vacuumed |-> FALSE, unclosed |-> 0]

\* a call of DataCleaner._clean_sqlite_database
CallBasicPurge ==
  /\ call.pc = "ready"
  /\ call.op = "basicpurge"
  /\ \E r \in {CleanSqliteDatabase(call.db, call.keywords, call.first, call.err)} :
       call' = [call EXCEPT !.pc = "returned",
                            !.db = IF r.committed THEN r.data ELSE call.db,
                            !.ok = r.ok, !.cleaned = r.cleaned, !.committed = r.committed,
                            !.vacuumed = r.vacuumed,
                            !.unclosed = IF r.closed THEN 0 ELSE 1]
  /\ UNCHANGED << runVars, rot >>

NextBasicPurge == CallBasicPurge

SpecBasicPurge == InitBasicPurge /\ [][NextBasicPurge]_vars

\* ------------------------------------------------------------------------
\* The three phases of the basic cleaner on one data root, and next to them the
\* database phase of the advanced cleaner on the same root
\* ------------------------------------------------------------------------
\* the db_files list of DataCleaner._modify_telemetry_ids
BasicDbFiles(app_path) ==
  << app_path \o <<"User", "globalStorage", "state.vscdb">>,
     app_path \o <<"User", "state.vscdb">>,
     app_path \o <<"state.vscdb">>,
     app_path \o <<"storage.json">> >>

\* storage_dirs of DataCleaner._clean_workspace_storage
BasicStorageDirs ==
  <<"IndexedDB", "Local Storage", "Cache", "Code Cache", "GPUCache", "blob_storage", "logs",
    "User/workspaceStorage", "User/History", "User/logs", "CachedData", "CachedExtensions">>

\* app_path / dir_name
StoragePath(app_path, nm) ==
  CASE nm = "User/workspaceStorage" -> app_path \o <<"User", "workspaceStorage">>
    [] nm = "User/History" -> app_path \o <<"User", "History">>
    [] nm = "User/logs" -> app_path \o <<"User", "logs">>
    [] OTHER -> app_path \o <<nm>>

\* dir_name.replace('/', '_')
StorageLabel(nm) ==
  CASE nm = "User/workspaceStorage" -> "User_workspaceStorage"
    [] nm = "User/History" -> "User_History"
    [] nm = "User/logs" -> "User_logs"
    [] OTHER -> nm

\* a test of the returned backup that never skips a path
BackupNeverMissing(backup) == FALSE

\* if not backup: continue
BackupMissing(backup) == backup = NoBackup

\* DataCleaner._create_backup; fails = the paths whose copy raises. A file is copied
\* over an entry of the same name, a directory cannot be copied onto one
BasicCreateBackup(f, bdir, t, src, label, fails) ==
  LET name == BackupName(label, t, FALSE)
  IN IF ~Exists(f, src) \/ src \in fails THEN [ret |-> NoBackup, dir |-> bdir]
     ELSE IF f[src].kind = "dir" /\ name \in DOMAIN bdir THEN [ret |-> NoBackup, dir |-> bdir]
     ELSE [ret |-> name,
           dir |-> PutEntry(bdir, name, [kind |-> f[src].kind, mtime |-> t, src |-> src,
                                         snap |-> Snapshot(f, src)])]

\* the row SELECT ... LIMIT 1 reads from each table of a store
FirstRowOf(db) ==
  [t \in DOMAIN db |-> IF db[t].rows = {} THEN NoRow ELSE CHOOSE r \in db[t].rows : TRUE]

\* the state of a phase before its loop: backed = the paths for which _create_backup
\* returned a backup, handed = the paths given to a rotation, a purge or a clearing,
\* skipped = the paths passed over for want of a backup, n = identifiers made so far
BasicStart(f, bdir, n) ==
  [fs |-> f, bdir |-> bdir, ok |-> TRUE, backed |-> {}, handed |-> {}, skipped |-> {}, n |-> n]

\* what the loops do once a path has its backup: note it and apply the operation
BasicHandled(st, b, p, node, ok, count) ==
  [st EXCEPT !.bdir = b.dir, !.backed = IF b.ret = NoBackup THEN @ ELSE @ \cup {p},
             !.handed = @ \cup {p},
             !.fs = [st.fs EXCEPT ![p] = node], !.ok = @ /\ ok, !.n = @ + count]

BasicSkipped(st, b, p) == [st EXCEPT !.bdir = b.dir, !.skipped = @ \cup {p}]

\* the loop of DataCleaner._modify_telemetry_ids, from file i on; e = the cleaner
\* (root, app), the clock t, the paths whose copy raises (fails) and the stores that
\* cannot be opened (broken)
RECURSIVE ModifyTelemetryIds(_, _, _, _)
ModifyTelemetryIds(st, db_files, i, e) ==
  IF i > Len(db_files) THEN st
  ELSE LET db_file == db_files[i]
           b == BasicCreateBackup(st.fs, st.bdir, e.t, db_file, <<e.app, "telemetry_db", "">>,
                                  e.fails)
           err == [NoErr EXCEPT !.open = db_file \in e.broken]
           node == st.fs[db_file]
           next ==
             IF ~Exists(st.fs, db_file) THEN st
             ELSE IF BackupMissing(b.ret) THEN BasicSkipped(st, b, db_file)
             ELSE IF EndsWith(Chars(Name(db_file)), Chars(".vscdb"))
               THEN LET r == ModifySqliteTelemetry(node.data, st.n, err)
                    IN BasicHandled(st, b, db_file,
                         IF r.committed THEN FileNode(e.t, r.data) ELSE node, r.ok, r.ids)
             ELSE LET r == ModifyJsonTelemetry(node.data, st.n, err)
                  IN BasicHandled(st, b, db_file,
                       IF r.written THEN FileNode(e.t, r.data) ELSE node, r.ok, r.ids)
       IN Then({ModifyTelemetryIds(s, db_files, i + 1, e) : s \in {next}})

\* the loop of DataCleaner._clean_databases, from file i on
RECURSIVE CleanDatabases(_, _, _, _)
CleanDatabases(st, db_files, i, e) ==
  IF i > Len(db_files) THEN st
  ELSE LET db_file == db_files[i]
           b == BasicCreateBackup(st.fs, st.bdir, e.t, db_file, <<e.app, "database", "">>,
                                  e.fails)
           err == [NoErr EXCEPT !.open = db_file \in e.broken]
           node == st.fs[db_file]
           next ==
             IF IsBackupFile(db_file) THEN st
             ELSE IF BackupMissing(b.ret) THEN BasicSkipped(st, b, db_file)
             ELSE LET r == CleanSqliteDatabase(node.data, BasicKeywords, FirstRowOf(node.data), err)
                  IN BasicHandled(st, b, db_file,
                       IF r.committed THEN FileNode(e.t, r.data) ELSE node, r.ok, 0)
       IN Then({CleanDatabases(s, db_files, i + 1, e) : s \in {next}})

\* the loop of AdvancedDataCleaner._clean_databases_advanced, from file i on, with the
\* default cleaning options: the file is purged whatever _create_backup returned
RECURSIVE CleanDatabasesAdvanced(_, _, _, _)
CleanDatabasesAdvanced(st, db_files, i, e) ==
  IF i > Len(db_files) THEN st
  ELSE LET db_file == db_files[i]
           b == CreateBackup(st.fs, st.bdir, [enabled |-> TRUE, compression |-> FALSE], e.t,
                             db_file, <<e.app, "database", Name(db_file)>>,
                             IF db_file \in e.fails THEN "copy_error" ELSE "ok")
           err == [NoErr EXCEPT !.open = db_file \in e.broken]
           node == st.fs[db_file]
           next ==
             IF IsBackupFile(db_file) THEN st
             ELSE LET r == CleanSqliteAdvanced(node.data, DefaultCleaningOptions.database_keywords,
                                               DefaultCleaningOptions.cache_table_patterns, err)
                  IN BasicHandled(st, b, db_file,
                       IF r.committed THEN FileNode(e.t, r.data) ELSE node, r.ok, 0)
       IN Then({CleanDatabasesAdvanced(s, db_files, i + 1, e) : s \in {next}})

\* the loop of DataCleaner._clean_workspace_storage, from directory i on
RECURSIVE CleanWorkspaceStorage(_, _, _, _)
CleanWorkspaceStorage(st, storage_dirs, i, e) ==
  IF i > Len(storage_dirs) THEN st
  ELSE LET dir_path == StoragePath(e.root, storage_dirs[i])
           b == BasicCreateBackup(st.fs, st.bdir, e.t, dir_path,
                                  <<e.app, StorageLabel(storage_dirs[i]), "">>, e.fails)
           next ==
             IF ~Exists(st.fs, dir_path) THEN st
             ELSE IF BackupMissing(b.ret) THEN BasicSkipped(st, b, dir_path)
             ELSE [BasicHandled(st, b, dir_path, st.fs[dir_path], TRUE, 0)
                     EXCEPT !.fs = ClearDirectoryContents(st.fs, dir_path, e.t, {})]
       IN Then({CleanWorkspaceStorage(s, storage_dirs, i + 1, e) : s \in {next}})

\* the files of the data root that may be absent, and the paths a fault may hit
BasicOptional ==
  { <<"cursor", "state.vscdb">>, <<"cursor", "storage.json">>, <<"cursor", "User", "state.vscdb">> }

BasicFaultPaths == BasicOptional \cup { <<"cursor", "Cache">> }

BasicFS(absent) == [p \in AllPaths |-> IF p \in absent THEN NoNode ELSE InitialFS(RecentTime)[p]]

InitBasic ==
  /\ IdleRun
  /\ rot = NoRotation
  /\ \E absent \in SUBSET BasicOptional : \E fails \in SubsetsUpTo(BasicFaultPaths, MaxFaults) :
       \E broken \in SubsetsUpTo(BasicOptional, MaxFaults) : \E cleaner \in {"basic", "advanced"} :
         call = [pc |-> IF cleaner = "basic" THEN "telemetry" ELSE "databases",
                 op |-> "basic", fs0 |-> BasicFS(absent),
                 st |-> BasicStart(BasicFS(absent), <<>>, 0),
                 e |-> [cleaner |-> cleaner, root |-> <<"cursor">>, app |-> "cursor",
                        t |-> StartTime, fails |-> fails, broken |-> broken],
                 backed |-> {}, handed |-> {}, skipped |-> {}, success |-> TRUE,
                 phase_ok |-> <<>>, purge |-> BasicStart(BasicFS(absent), <<>>, 0)]

\* what clean_application keeps of a phase that returned
AfterPhase(st, next_pc) ==
  [call EXCEPT !.pc = next_pc, !.st = BasicStart(st.fs, st.bdir, st.n),
               !.backed = @ \cup st.backed, !.handed = @ \cup st.handed,
               !.skipped = @ \cup st.skipped, !.success = @ /\ st.ok,
               !.phase_ok = Append(@, st.ok)]

\* clean_application, phase 1
BasicTelemetry ==
  /\ call.op = "basic"
  /\ call.pc = "telemetry"
  /\ \E st \in {ModifyTelemetryIds(call.st, BasicDbFiles(call.e.root), 1, call.e)} :
       call' = AfterPhase(st, "databases")
  /\ UNCHANGED << runVars, rot >>

\* clean_application, phase 2; purge = the state in which _clean_databases returned
BasicDatabases ==
  /\ call.op = "basic"
  /\ call.pc = "databases"
  /\ call.e.cleaner = "basic"
  /\ \E st \in {CleanDatabases(call.st, DbFiles(call.st.fs, call.e.root), 1, call.e)} :
       call' = [AfterPhase(st, "storage") EXCEPT !.purge = st]
  /\ UNCHANGED << runVars, rot >>

\* a call of AdvancedDataCleaner._clean_databases_advanced on the same data root
AdvancedDatabases ==
  /\ call.op = "basic"
  /\ call.pc = "databases"
  /\ call.e.cleaner = "advanced"
  /\ \E st \in {CleanDatabasesAdvanced(call.st, DbFiles(call.st.fs, call.e.root), 1, call.e)} :
       call' = [AfterPhase(st, "returned") EXCEPT !.purge = st]
  /\ UNCHANGED << runVars, rot >>

\* clean_application, phase 3, and the return of success
BasicStorage ==
  /\ call.op = "basic"
  /\ call.pc = "storage"
  /\ \E st \in {CleanWorkspaceStorage(call.st, BasicStorageDirs, 1, call.e)} :
       call' = AfterPhase(st, "returned")
  /\ UNCHANGED << runVars, rot >>

\* the clock moves on between two phases
BasicTick ==
  /\ call.op = "basic"
  /\ call.pc \in {"databases", "storage"}
  /\ call.e.t < StartTime + MaxTicks
  /\ call' = [call EXCEPT !.e.t = @ + 1]
  /\ UNCHANGED << runVars, rot >>

NextBasic == BasicTelemetry \/ BasicDatabases \/ AdvancedDatabases \/ BasicStorage \/ BasicTick

SpecBasic == InitBasic /\ [][NextBasic]_vars

\* ------------------------------------------------------------------------
\* Properties of a run
\* ------------------------------------------------------------------------
\* the positions in apps_to_clean whose call of clean_application_advanced has returned
Returned == 1..Len(summary)

\* the call at position i got past the safety checks
PassedGate(i) ==
  \E j \in 1..Len(log) : log[j].i = i /\ log[j].phase = "gate" /\ log[j].what = "proceed"

PhaseNames == {"rotation", "purge", "eviction"}

\* the phases the call at position i started, in the order it started them
BegunPhases(i) ==
  LET e == SelectSeq(log, LAMBDA x : x.i = i /\ x.what = "begin")
  IN [j \in 1..Len(e) |-> e[j].phase]

\* how the phases of the call at position i ended: "true", "false", "raised"
PhaseResults(i) ==
  {log[j].what : j \in {k \in 1..Len(log) :
                          log[k].i = i /\ log[k].phase \in PhaseNames /\ log[k].what # "begin"}}

\* the backup directory holds an entry made from path p whose files are as before the run
BackedUpAsBefore(p) ==
  \E n \in DOMAIN backup_base_dir :
    /\ backup_base_dir[n].kind \in {"file", "dir", "zip"}
    /\ backup_base_dir[n].src = p
    /\ \A q \in AllPaths :
         (IsUnder(p, q) /\ InitialFS(mtime0)[q].kind = "file") =>
           /\ q \in DOMAIN backup_base_dir[n].snap
           /\ backup_base_dir[n].snap[q].data = InitialFS(mtime0)[q].data

\* C1: every change a phase makes to a path follows a _create_backup of that path that
\* returned a backup path; a path for which _create_backup returned None (source
\* missing, copy error, backups disabled) is not changed.
C1_MutationOnlyAfterBackup == unbacked = {}

\* C2: with dry_run = True no file or directory under the data roots is changed: no
\* key rewritten or removed, no row deleted, no cache content deleted.
C2_DryRunAppliesNoMutation ==
  dry_run =>
    \A p \in AllPaths :
      /\ fs[p].kind = InitialFS(mtime0)[p].kind
      /\ fs[p].data = InitialFS(mtime0)[p].data

\* C3: no backup entry _create_backup made during the run is removed by a
\* _clean_old_backups call of the same run, whatever retention_days and the
\* modification times of the sources.
C3_NoBackupOfTheRunSwept == swept = {}

\* C4: the backup directory is append-only during a run: no two _create_backup calls
\* return the same path, no entry is overwritten, and at the end of the run every
\* changed path has an entry holding its state from before the run.
C4_BackupRootAppendOnly ==
  /\ clobbered = {}
  /\ pc = "done" => \A p \in mutated : BackedUpAsBefore(p)

\* C5: for every target that got past the safety checks, rotation, purge and eviction
\* each run exactly once and in that order, whatever an earlier phase returned or
\* raised; and the phases of one target all come before those of the next.
C5_PhasesRunOnceInOrder ==
  /\ \A i \in Returned : PassedGate(i) => BegunPhases(i) = <<"rotation", "purge", "eviction">>
  /\ \A j, k \in 1..Len(log) : j < k => log[j].i <= log[k].i

\* C6: for a target whose phases ran, the result of clean_application_advanced is True
\* iff every phase run for it returned True; after a purge that returned False the
\* eviction is still run; main exits with status 0 iff the result is True for every
\* target it cleaned.
C6_ResultIsConjunctionOfPhases ==
  /\ \A i \in Returned : PassedGate(i) => (summary[i][2] <=> PhaseResults(i) \subseteq {"true"})
  /\ \A j \in 1..Len(log) :
       (log[j].i \in Returned /\ log[j].phase = "purge" /\ log[j].what = "false") =>
         \E k \in (j + 1)..Len(log) :
           log[k].i = log[j].i /\ log[k].phase = "eviction" /\ log[k].what = "begin"
  /\ pc = "done" => (exit_code = 0 <=> \A i \in Returned : summary[i][2])

\* a run has ended in which, for one target, the purge returned False, the eviction
\* returned True and the result is False
C6_FailedPurgeThenEviction ==
  /\ pc = "done"
  /\ exit_code = 1
  /\ \E i \in Returned :
       /\ ~summary[i][2]
       /\ \E j, k \in 1..Len(log) :
            /\ j < k
            /\ log[j] = [i |-> i, phase |-> "purge", what |-> "false"]
            /\ log[k] = [i |-> i, phase |-> "eviction", what |-> "true"]

\* C7: if any individual operation failed while a target was cleaned (a key update, the
\* removal of a cache item, the creation of a backup), the result of
\* clean_application_advanced for that target is False.
C7_FailureMakesResultFalse == \A i \in Returned : i \in op_failed => ~summary[i][2]

\* C8: with a loaded configuration the run always completes: every call of
\* clean_application_advanced returns and main reaches the summary for all targets.
C8_RunCompletes == <>(pc = "done" /\ Len(summary) = Len(apps_to_clean))

\* C9: when the target has no data root, or process checking is enabled and
\* _is_app_running finds the target, clean_application_advanced returns False without
\* a retention sweep, a backup or a change to the data; without a data root the
\* process check is not made.
C9_BlockedTargetIsUntouched ==
  [][ (/\ pc = "call"
       /\ \/ AppPath = NoPath
          \/ config.safety_options.check_running_processes /\ IsAppRunning(App))
        => /\ summary' = Append(summary, <<App, FALSE>>)
           /\ backup_base_dir' = backup_base_dir
           /\ made' = made
           /\ swept' = swept
           /\ fs' = fs
           /\ (AppPath = NoPath => proc_checked' = proc_checked) ]_vars

\* a call was refused because the process check found the target running, while old
\* backup entries were waiting for the sweep
C9_RefusedForRunningProcess ==
  \E j \in 1..Len(log) :
    /\ log[j].phase = "gate"
    /\ log[j].what = "blocked"
    /\ log[j].i \in proc_checked
    /\ log[j].i \in Returned
    /\ ~summary[log[j].i][2]
    /\ Expired(backup_base_dir, config.backup_options.retention_days, now) # {}

\* ------------------------------------------------------------------------
\* Properties of a rotation taken on its own
\* ------------------------------------------------------------------------
\* the store has a row for key in ItemTable
HasKey(db, key) == "ItemTable" \in DOMAIN db /\ \E r \in db["ItemTable"].rows : r[1] = V(key)

\* the second column of the row for key
ValueOf(db, key) == (CHOOSE r \in db["ItemTable"].rows : r[1] = V(key))[2]

\* C10: after a rotation that returned True, every telemetry key that was present and
\* is not a session key is present with an identifier made by this rotation, different
\* from its previous value; every session key is absent; a key that was absent is
\* not created.
C10_RotationPostcondition ==
  (rot.pc = "rotated" /\ rot.ok) =>
    LET tk == Range(rot.keys.telemetry_keys)
        sk == Range(rot.keys.session_keys)
    IN /\ \A k \in tk \ sk :
            HasKey(rot.before, k) =>
              /\ HasKey(rot.db, k)
              /\ ValueOf(rot.db, k).gen > rot.n0
              /\ ValueOf(rot.db, k) # ValueOf(rot.before, k)
       /\ \A k \in sk : ~HasKey(rot.db, k)
       /\ \A k \in tk \cup sk : ~HasKey(rot.before, k) => ~HasKey(rot.db, k)

\* the store of the rotation has an entry for key (a row of ItemTable, a key of the
\* JSON object)
Present(store, key) ==
  IF rot.cleaner \in {"json", "basicjson"} THEN key \in DOMAIN store ELSE HasKey(store, key)

\* the value the store holds for key
Held(store, key) == IF rot.cleaner \in {"json", "basicjson"} THEN store[key] ELSE ValueOf(store, key)

\* the telemetry keys to which the last rotation wrote an identifier
Written ==
  {k \in Range(rot.keys.telemetry_keys) : Present(rot.db, k) /\ Held(rot.db, k).gen > rot.n0}

\* the name of the key contains "session", whatever the case of its letters
SessionLike(key) == \E i \in {0} : Contains(Lower(Chars(key)), Chars("session"))

\* C11: in an advanced rotation of a SQLite or JSON store, a telemetry key that gets an
\* identifier gets the session identifier of that rotation when its name contains
\* "session" in any case and the machine identifier otherwise; the two identifiers
\* differ, so a session-like and a machine-like key never hold the same value afterwards.
C11_IdentifierSplit ==
  (rot.pc = "rotated" /\ rot.cleaner \in {"advanced", "json"}) =>
    /\ NewId(rot.n0 + 1) # NewId(rot.n0 + 2)
    /\ \A k \in Written :
         Held(rot.db, k) = IF SessionLike(k) THEN NewId(rot.n0 + 2) ELSE NewId(rot.n0 + 1)
    /\ \A k1 \in Written : \A k2 \in Written :
         (SessionLike(k1) /\ ~SessionLike(k2)) => Held(rot.db, k1) # Held(rot.db, k2)

\* a rotation of a JSON store gave lastSessionId the session identifier and machineId
\* the machine identifier
C11_BothIdentifiersWritten ==
  /\ rot.pc = "rotated"
  /\ rot.cleaner = "json"
  /\ {"machineId", "lastSessionId", "sessionId"} \subseteq Written
  /\ Held(rot.db, "lastSessionId") = NewId(rot.n0 + 2)
  /\ Held(rot.db, "machineId") = NewId(rot.n0 + 1)


\* C12: _modify_sqlite_telemetry_advanced returns False only if the store could not be
\* opened or the transaction could not be committed; errors on single keys, a missing
\* ItemTable included, leave the result True; when it returns True the commit happened
\* and VACUUM ran after it.
C12_RotationFailsOnlyOnOpenOrCommit ==
  (rot.pc = "rotated" /\ rot.cleaner = "advanced") =>
    /\ ~rot.ok => (rot.err.open \/ rot.err.commit)
    /\ rot.ok => (rot.committed /\ rot.vacuumed)

\* C12, amended: _modify_sqlite_telemetry_advanced returns False only if the store could
\* not be opened, the transaction could not be committed or VACUUM raised after the
\* commit; errors on single keys, a missing ItemTable included, leave the result True;
\* when it returns True the commit happened and VACUUM ran after it.
C12_RotationFailsOnOpenCommitOrVacuum ==
  (rot.pc = "rotated" /\ rot.cleaner = "advanced") =>
    /\ rot.ok <=> ~(rot.err.open \/ rot.err.commit \/ rot.err.vacuum)
    /\ rot.ok => (rot.committed /\ rot.vacuumed)
    /\ rot.vacuumed => rot.committed

\* a rotation wrote a new identifier, committed it, and returned False because VACUUM
\* raised
C12_CommittedButVacuumFailed ==
  /\ rot.pc = "rotated"
  /\ rot.cleaner = "advanced"
  /\ rot.err.vacuum
  /\ ~rot.ok
  /\ rot.committed
  /\ "machineId" \in Written

\* ------------------------------------------------------------------------
\* Properties of a purge taken on its own
\* ------------------------------------------------------------------------
\* the name of the table contains a pattern, the case of both ignored
MatchesPattern(table, cache_patterns) ==
  \E i \in 1..Len(cache_patterns) :
    Contains(Lower(Chars(table)), Lower(Chars(cache_patterns[i])))

\* some column of the row holds a keyword as a substring, letter for letter
HoldsKeyword(row, keywords) ==
  \E k \in 1..Len(keywords) : \E c \in 1..Len(row) :
    Contains(CellChars(row[c]), Chars(keywords[k]))

\* C13: after a purge that returned True, every table whose name contains a cache pattern
\* (ignoring the case of the name and of the pattern) has no rows, and a table that
\* matches no pattern keeps every row that holds no keyword in any case.
C13_CacheTablesEmptied ==
  (call.pc = "returned" /\ call.op = "purge" /\ call.ok) =>
    \A t \in DOMAIN call.before :
      IF MatchesPattern(t, call.cache_patterns) THEN call.db[t].rows = {}
      ELSE \A r \in call.before[t].rows :
             (~\E k \in 1..Len(call.keywords) : \E c \in 1..Len(r) : Like(r[c], call.keywords[k]))
               => r \in call.db[t].rows

\* C14: after a purge that returned True, no table outside the cache tables holds a row
\* in which the text of some column contains a configured keyword.
C14_NoKeywordRowLeft ==
  (call.pc = "returned" /\ call.op = "purge" /\ call.ok) =>
    \A t \in DOMAIN call.db :
      ~MatchesPattern(t, call.cache_patterns) =>
        \A r \in call.db[t].rows : ~HoldsKeyword(r, call.keywords)

HoldsKeywordAnyCase(row, keywords) ==
  \E k \in 1..Len(keywords) : \E c \in 1..Len(row) :
    Contains(Lower(CellChars(row[c])), Lower(Chars(keywords[k])))

OthersProcessed ==
  (call.ok \/ call.committed) =>
    \A t \in DOMAIN call.before :
      PlainIdentifier(t) =>
        /\ IsCacheTable(t, call.cache_patterns) => call.db[t].rows = {}
        /\ ~MatchesPattern(t, call.cache_patterns) =>
             \A r \in call.db[t].rows :
               ~\E k \in 1..Len(call.keywords) : \E c \in 1..Len(r) :
                  PlainIdentifier(call.before[t].cols[c]) /\ Like(r[c], call.keywords[k])

\* C16: a failure on one table or column does not stop the purge of the others; the
\* purge returns False only when the store cannot be opened or its tables cannot be
\* listed; VACUUM runs, after all tables, exactly when at least one row was deleted.
C16_PurgeFailsOnlyOnOpen ==
  (call.pc = "returned" /\ call.op = "purge") =>
    /\ OthersProcessed
    /\ ~call.ok => call.err.open
    /\ call.vacuumed <=> call.cleaned > 0

\* C16, amended: a failure on one table or column does not stop the purge of the others;
\* the purge returns False only when the store cannot be opened, its tables cannot be
\* listed, or rows were deleted and the commit or VACUUM raised; VACUUM runs, after all
\* tables and the commit, exactly when at least one row was deleted.
C16_PurgeFailsOnOpenCommitOrVacuum ==
  (call.pc = "returned" /\ call.op = "purge") =>
    /\ OthersProcessed
    /\ ~call.ok <=> (call.err.open \/ (call.cleaned > 0 /\ (call.err.commit \/ call.err.vacuum)))
    /\ (~call.err.open /\ ~call.err.commit /\ ~call.err.vacuum)
         => (call.vacuumed <=> call.cleaned > 0)
    /\ call.vacuumed => (call.committed /\ call.cleaned > 0)

\* the purge could not run its statement on the table temp-log, went on to the table
\* accounts, deleted the row account-42 there, committed and returned True
C16_WentOnAfterFailedTable ==
  /\ call.pc = "returned"
  /\ call.op = "purge"
  /\ call.ok
  /\ call.vacuumed
  /\ {"temp-log", "accounts"} \subseteq DOMAIN call.db
  /\ IsCacheTable("temp-log", call.cache_patterns)
  /\ call.db["temp-log"].rows # {}
  /\ <<V("account-42")>> \in call.before["accounts"].rows \ call.db["accounts"].rows

\* ------------------------------------------------------------------------
\* Properties of an eviction taken on its own
\* ------------------------------------------------------------------------
\* the directories below the root whose name is an entry of cache_directories
MatchedDirs(f) ==
  {p \in AllPaths :
     /\ Exists(f, p) /\ f[p].kind = "dir"
     /\ IsUnder(call.e.root, p) /\ p # call.e.root
     /\ Name(p) \in Range(call.cache_dirs)}

\* the matched directories that do not lie inside another matched directory
OutermostMatched(f) ==
  {p \in MatchedDirs(f) : ~\E q \in MatchedDirs(f) : q # p /\ IsUnder(q, p)}

\* C17: after an eviction that is no dry run and in which no removal failed, every matched
\* cache directory that is not inside another matched directory still exists and has no
\* children; after a dry run every matched directory exists with the children it had.
C17_CacheDirectoriesEmptiedNotRemoved ==
  (call.pc = "returned" /\ call.op = "evict") =>
    IF call.e.dry_run
      THEN \A p \in MatchedDirs(call.before) :
             /\ Exists(call.st.fs, p)
             /\ ChildrenOf(call.st.fs, p) = ChildrenOf(call.before, p)
      ELSE call.e.stuck = {} =>
             \A p \in OutermostMatched(call.before) :
               /\ Exists(call.st.fs, p)
               /\ call.st.fs[p].kind = "dir"
               /\ ChildrenOf(call.st.fs, p) = {}

\* an eviction that is no dry run emptied a cache directory that held a file and a
\* nested cache directory
C17_NestedCacheEmptied ==
  /\ call.pc = "returned"
  /\ call.op = "evict"
  /\ ~call.e.dry_run
  /\ call.e.stuck = {}
  /\ <<"cursor", "Cache">> \in OutermostMatched(call.before)
  /\ <<"cursor", "Cache", "Cache">> \in MatchedDirs(call.before)
  /\ Exists(call.st.fs, <<"cursor", "Cache">>)
  /\ ChildrenOf(call.st.fs, <<"cursor", "Cache">>) = {}
  /\ <<"cursor", "Cache">> \in call.st.cleared

\* C18: the paths _clean_cache_advanced finds, backs up and clears are exactly the
\* directories, at any depth below the root, whose name is an entry of
\* cache_directories; a path that is no directory (a regular file with such a name) is
\* not among them and does not make the phase fail.
C18_CandidatesAreTheMatchedDirectories ==
  (call.pc = "returned" /\ call.op = "evict") =>
    /\ call.st.scanned = MatchedDirs(call.before)
    /\ call.st.backed \subseteq MatchedDirs(call.before)
    /\ call.st.cleared \subseteq MatchedDirs(call.before)
    /\ call.st.ok

\* ------------------------------------------------------------------------
\* Properties of a retention sweep taken on its own
\* ------------------------------------------------------------------------
\* nothing raised during the sweep
SweepUndisturbed == call.stuck = {} /\ call.unreadable = {}

\* C19: with retention_days = d > 0 a sweep in which nothing fails removes exactly the
\* entries whose modification time is before now - d days, an entry at the cutoff is
\* kept; with retention_days <= 0 it removes nothing.
C19_SweepRemovesStrictlyOlder ==
  (call.pc = "returned" /\ call.op = "sweep") =>
    IF call.retention_days > 0
      THEN SweepUndisturbed =>
             DOMAIN call.bdir =
               {n \in DOMAIN call.before :
                  call.before[n].mtime >= call.t - call.retention_days * Day}
      ELSE call.bdir = call.before

\* a sweep removed an entry one second older than the cutoff and kept an entry at the
\* cutoff
C19_EntryAtCutoffKept ==
  /\ call.pc = "returned"
  /\ call.op = "sweep"
  /\ call.retention_days > 0
  /\ SweepUndisturbed
  /\ \E n \in DOMAIN call.bdir : call.bdir[n].mtime = call.t - call.retention_days * Day
  /\ \E n \in DOMAIN call.before \ DOMAIN call.bdir :
       call.before[n].mtime = call.t - call.retention_days * Day - 1

\* C20: a failure on one expired entry does not end the sweep: when the removal or the
\* inspection of an entry fails, every other expired entry is still removed.
C20_SweepGoesOnAfterFailure ==
  (call.pc = "returned" /\ call.op = "sweep" /\ call.retention_days > 0) =>
    \A n \in Expired(call.before, call.retention_days, call.t) :
      n \notin (call.stuck \cup call.unreadable) => n \notin DOMAIN call.bdir

\* ------------------------------------------------------------------------
\* Further properties of a run
\* ------------------------------------------------------------------------
\* the backups _create_backup returned while the target at position i was processed
BackupsOf(i) == {b \in made : b.app = apps_to_clean[i]}

\* the restore scripts in the backup directory written for the target at position i
ManifestsOf(i) ==
  {n \in DOMAIN backup_base_dir : n.kind = "restore" /\ n.app = apps_to_clean[i]}

\* C21: when a call of clean_application_advanced has returned and at least one backup
\* was created for its target, the backup directory holds a restore script of the target
\* that lists every backup created for it, in the order of creation; no changed path is
\* ever put back to what it was before the run.
C21_ManifestListsEveryBackup ==
  /\ \A i \in Returned :
       BackupsOf(i) # {} =>
         \E n \in ManifestsOf(i) :
           LET listed == backup_base_dir[n].snap
           IN /\ Range(listed) = BackupsOf(i)
              /\ \A j \in 1..Len(listed) : \A k \in j..Len(listed) : listed[j].ts <= listed[k].ts
  /\ \A p \in mutated : \E q \in AllPaths : IsUnder(p, q) /\ fs[q] # InitialFS(mtime0)[q]

\* C22: when a store operation has returned, whatever its result, the connection it
\* opened is closed: none is left open for the next operation or phase to find.
C22_ConnectionClosedAfterOperation ==
  rot.pc = "rotated" => rot.unclosed = 0

\* C23: the backup directory is apart from every data root being cleaned: no backup is
\* written under the root, no scan of the root returns a path inside the backup
\* directory, and no backup is itself evicted.
C23_BackupRootApartFromTarget ==
  call.root # <<>> =>
    /\ \A w \in call.written : ~IsUnder(call.root, w)
    /\ \A s \in call.scanned : ~IsUnder(GetBackupDirectory, s)
    /\ \A d \in call.evicted : ~IsUnder(GetBackupDirectory, d)

ListedKeys == Range(rot.keys.telemetry_keys) \cup Range(rot.keys.session_keys)

\* C24: a rotation of a flat JSON store changes only the top-level keys listed as
\* telemetry or session keys: every other key is still there with the value it had, no
\* key is added, and when the store holds no listed key the file is not rewritten.
C24_JsonRotationFrame ==
  (rot.pc = "rotated" /\ rot.cleaner \in {"json", "basicjson"}) =>
    /\ \A k \in DOMAIN rot.before \ ListedKeys : k \in DOMAIN rot.db /\ rot.db[k] = rot.before[k]
    /\ DOMAIN rot.db \subseteq DOMAIN rot.before
    /\ (DOMAIN rot.before \cap ListedKeys = {}) => ~rot.committed

\* a rewritten JSON store that lost a session key and kept its unlisted key
C24_RewrittenNextToUnlistedKey ==
  /\ rot.pc = "rotated"
  /\ rot.cleaner = "basicjson"
  /\ rot.committed
  /\ "authToken" \in DOMAIN rot.before \ DOMAIN rot.db
  /\ "machineId" \in DOMAIN rot.db /\ rot.db["machineId"] # rot.before["machineId"]
  /\ "otherData" \in DOMAIN rot.db

\* the document is unparseable, or parses to something of the wrong shape
Malformed(doc) ==
  \/ doc.file = "unparseable"
  \/ /\ doc.file = "parsed"
     /\ \/ doc.top # "object"
        \/ doc.cleaning_options # "object"
        \/ doc.telemetry_keys # "list"
        \/ doc.database_keywords # "list"
        \/ doc.cache_directories # "list"

NothingRun ==
  /\ ~call.swept
  /\ call.backups = {}
  /\ call.db = call.db0
  /\ call.cache # {}

\* C25: with a malformed configuration document the cleaner fails when it loads it: no
\* retention sweep, no backup and no mutation is ever run; a missing document is no
\* failure, the cleaner is constructed with the default configuration.
C25_MalformedConfigurationFailsAtLoad ==
  /\ Malformed(call.doc) => (call.pc \in {"start", "exited", "raised"} /\ NothingRun)
  /\ (call.doc.file = "missing" /\ call.pc # "start") =>
       (call.pc \notin {"exited", "raised"} /\ call.loaded = "defaults")

\* some column of the row holds text that contains one of the keywords
HoldsKeywordText(r, keywords) ==
  \E c \in 1..Len(r) : \E k \in 1..Len(keywords) :
    TypeOf(r[c]) = "text" /\ Like(r[c], keywords[k])

\* C29: the purge of the basic cleaner deletes every row in which some column holds
\* text containing a keyword, whatever the other rows of the table hold, the row that
\* is read first included.
C29_EveryKeywordRowDeleted ==
  (call.pc = "returned" /\ call.op = "basicpurge" /\ call.ok) =>
    \A t \in DOMAIN call.before : \A r \in call.before[t].rows :
      HoldsKeywordText(r, call.keywords) => r \notin call.db[t].rows

\* the paths of the data root that the basic cleaner has changed so far
ChangedByBasic == {p \in AllPaths : call.st.fs[p] # call.fs0[p]}

\* the paths the three phases of the basic cleaner work on
BasicCandidates ==
  {p \in Range(BasicDbFiles(call.e.root)) : Exists(call.fs0, p)}
    \cup {p \in Range(DbFiles(call.fs0, call.e.root)) : ~IsBackupFile(p)}
    \cup {p \in {StoragePath(call.e.root, BasicStorageDirs[i]) : i \in 1..Len(BasicStorageDirs)} :
            Exists(call.fs0, p)}

\* C26: the basic cleaner changes a path only after _create_backup returned a backup
\* for it; a path for which it returned None is passed over unchanged, and the paths
\* after it are still processed.
C26_BasicMutatesOnlyBackedUpPaths ==
  (call.op = "basic" /\ call.e.cleaner = "basic") =>
    /\ \A p \in ChangedByBasic : \E q \in call.backed : IsUnder(q, p)
    /\ call.handed \subseteq call.backed
    /\ \A p \in call.skipped \ call.backed :
         \A q \in AllPaths : IsUnder(p, q) => call.st.fs[q] = call.fs0[q]
    /\ call.pc = "returned" =>
         \A p \in BasicCandidates : p \notin call.e.fails => p \in call.backed

\* a finished run that passed over a store without a backup and rotated the one after it
C26_SkippedOneRotatedNext ==
  /\ call.op = "basic"
  /\ call.e.cleaner = "basic"
  /\ call.pc = "returned"
  /\ <<"cursor", "User", "state.vscdb">> \in call.skipped \ call.backed
  /\ call.st.fs[<<"cursor", "User", "state.vscdb">>] = call.fs0[<<"cursor", "User", "state.vscdb">>]
  /\ <<"cursor", "state.vscdb">> \in ChangedByBasic \cap call.backed

\* the name of the key contains the word, letter for letter
NameContains(key, word) == \E i \in {0} : Contains(Chars(key), Chars(word))

\* C27: in a rotation of the basic cleaner a key whose name contains machineId or
\* deviceId gets the new machine identifier, in a SQLite store a key whose name
\* contains sessionId gets the new session identifier, and only the other keys get the
\* new telemetry identifier; machineId and sessionId never hold the same value after
\* one rotation.
C27_BasicIdentifierSplit ==
  (rot.pc = "rotated" /\ rot.cleaner \in {"basic", "basicjson"}) =>
    /\ \A k \in Written :
         Held(rot.db, k) =
           IF NameContains(k, "machineId") \/ NameContains(k, "deviceId") THEN NewId(rot.n0 + 1)
           ELSE IF rot.cleaner = "basic" /\ NameContains(k, "sessionId") THEN NewId(rot.n0 + 3)
           ELSE NewId(rot.n0 + 2)
    /\ {"machineId", "sessionId"} \subseteq Written =>
         Held(rot.db, "machineId") # Held(rot.db, "sessionId")

\* the key-value stores under the data root of the call at position i that the
\* rotation looks for
RotatedStores(i) ==
  {p \in AllPaths :
     /\ IsUnder(RootOf(apps_to_clean[i]), p)
     /\ Name(p) \in Range(config.cleaning_options.database_files)
     /\ InitialFS(mtime0)[p].kind = "file"
     /\ "ItemTable" \in DOMAIN InitialFS(mtime0)[p].data}

\* C28: the rotation survives the later phases of the run: after a call of
\* clean_application_advanced in which every phase returned True, each telemetry key
\* that the rotation rewrote in a key-value store is still in that store, with an
\* identifier of this run as its value.
C28_RotationSurvivesPurge ==
  \A i \in Returned :
    (summary[i][2] /\ PassedGate(i) /\ ~dry_run /\ PhaseResults(i) = {"true"}) =>
      \A p \in RotatedStores(i) :
        \A k \in Range(config.cleaning_options.telemetry_keys)
                   \ Range(config.cleaning_options.session_keys) :
          (HasKey(InitialFS(mtime0)[p].data, k) /\ [kind |-> "update", path |-> p] \notin env) =>
            /\ HasKey(fs[p].data, k)
            /\ ValueOf(fs[p].data, k).gen > 0

\* the full path contains "backup" in some letter case, or ".bak"
NamedAsBackup(p) ==
  \E i \in {0} : \/ Contains(Lower(PathChars(p)), Chars("backup"))
                 \/ Contains(PathChars(p), Chars(".bak"))

\* the purge phase has returned
PurgeReturned == call.op = "basic" /\ call.pc \in {"storage", "returned"}

\* the database files under the data root when the purge phase scanned it
ScannedDbFiles == Range(DbFiles(call.purge.fs, call.e.root))

\* the purge phase left alone every file named as a backup: no backup of it, not
\* handed to the purge, its content as before; and no such file made the phase False
BackupFilesLeftAlone ==
  /\ \A p \in AllPaths :
       NamedAsBackup(p) =>
         /\ p \notin call.purge.backed \cup call.purge.handed
         /\ \A n \in DOMAIN call.purge.bdir : call.purge.bdir[n].src # p
         /\ call.purge.fs[p] = call.fs0[p]
  /\ ~call.purge.ok => \E p \in call.purge.handed : p \in call.e.broken

====
